---- MODULE Spec2Model ----
(***************************************************************************)
(* JSHost platform: the script delivery decision pipeline (deliver_js),    *)
(* the allow-list validators, the access recorder and the CDN host router  *)
(* (cdn_domain_middleware), modelled from backend/server.py,               *)
(* backend/validators.py and backend/models.py.                            *)
(*                                                                         *)
(* Requests and request bodies carry their texts as TLA+ strings; where    *)
(* the code does character work on one (header values, whitelist patterns, *)
(* hosts, paths, file names) Chars gives its characters and the work is    *)
(* done on that sequence of one-character strings.  Stored patterns and    *)
(* domains are such sequences.  Payload contents and statuses are opaque.  *)
(***************************************************************************)
EXTENDS Integers, Sequences, FiniteSets, TLC

(***************************************************************************)
(* Python str primitives                                                   *)
(***************************************************************************)
UpperChars == <<"A","B","C","D","E","F","G","H","I","J","K","L","M",
                "N","O","P","Q","R","S","T","U","V","W","X","Y","Z">>

LowerChars == <<"a","b","c","d","e","f","g","h","i","j","k","l","m",
                "n","o","p","q","r","s","t","u","v","w","x","y","z">>

DigitChars == {"0","1","2","3","4","5","6","7","8","9"}

WhitespaceChars == {" ", "\t", "\n", "\r"}

\* str.lower() on one character
LowerMap == [c \in {UpperChars[i] : i \in 1..26} |->
                LowerChars[CHOOSE i \in 1..26 : UpperChars[i] = c]]

LowerChar(c) == IF c \in DOMAIN LowerMap THEN LowerMap[c] ELSE c

\* str.lower()
Lower(s) == [i \in 1..Len(s) |-> LowerChar(s[i])]

\* str.strip()
Strip(s) ==
    LET keep == {i \in 1..Len(s) : s[i] \notin WhitespaceChars}
    IN IF keep = {} THEN <<>>
       ELSE LET lo == CHOOSE i \in keep : \A j \in keep : i <= j
                hi == CHOOSE i \in keep : \A j \in keep : j <= i
            IN SubSeq(s, lo, hi)

\* position of the first occurrence of sub in s, 0 when there is none (str.find + 1)
IndexOf(s, sub) ==
    LET hits == {i \in 1..(Len(s) - Len(sub) + 1) : SubSeq(s, i, i + Len(sub) - 1) = sub}
    IN IF hits = {} THEN 0 ELSE CHOOSE i \in hits : \A j \in hits : i <= j

\* sub in s
Contains(s, sub) == IndexOf(s, sub) # 0

\* str.startswith
StartsWith(s, p) == Len(s) >= Len(p) /\ SubSeq(s, 1, Len(p)) = p

\* str.endswith
EndsWith(s, p) == Len(s) >= Len(p) /\ SubSeq(s, Len(s) - Len(p) + 1, Len(s)) = p

\* str.split(sep): the list of pieces
RECURSIVE Split(_, _)
Split(s, sep) ==
    LET i == IndexOf(s, sep)
    IN IF i = 0 THEN <<s>>
       ELSE <<SubSeq(s, 1, i - 1)>> \o Split(SubSeq(s, i + Len(sep), Len(s)), sep)

\* str.replace(old, new) for a one-character old
RECURSIVE Replace(_, _, _)
Replace(s, old, new) ==
    IF s = <<>> THEN <<>>
    ELSE (IF Head(s) = old THEN new ELSE <<Head(s)>>) \o Replace(Tail(s), old, new)

\* len(pattern) > 255
MaxPatternLen == 255

\* the characters of the texts the requests and request bodies of the model carry
Chars ==
    ("" :> <<>>) @@
    ("None" :> <<"N", "o", "n", "e">>) @@
    ("script" :> <<"s", "c", "r", "i", "p", "t">>) @@
    ("Document" :> <<"D", "o", "c", "u", "m", "e", "n", "t">>) @@
    ("navigate" :> <<"n", "a", "v", "i", "g", "a", "t", "e">>) @@
    ("cors" :> <<"c", "o", "r", "s">>) @@
    ("no-cors" :> <<"n", "o", "-", "c", "o", "r", "s">>) @@
    ("text/html" :> <<"t", "e", "x", "t", "/", "h", "t", "m", "l">>) @@
    ("*/*" :> <<"*", "/", "*">>) @@
    ("text/html,*/*" :> <<"t", "e", "x", "t", "/", "h", "t", "m", "l", ",", "*", "/", "*">>) @@
    ("HTTPS://A.co:443" :> <<"H", "T", "T", "P", "S", ":", "/", "/", "A", ".", "c", "o", ":", "4", "4", "3">>) @@
    ("https://s.t.co" :> <<"h", "t", "t", "p", "s", ":", "/", "/", "s", ".", "t", ".", "c", "o">>) @@
    ("https://e.co" :> <<"h", "t", "t", "p", "s", ":", "/", "/", "e", ".", "c", "o">>) @@
    ("https://a.co/p" :> <<"h", "t", "t", "p", "s", ":", "/", "/", "a", ".", "c", "o", "/", "p">>) @@
    ("s1.js" :> <<"s", "1", ".", "j", "s">>) @@
    ("s1.txt" :> <<"s", "1", ".", "t", "x", "t">>) @@
    ("s1" :> <<"s", "1">>) @@
    ("a.co" :> <<"a", ".", "c", "o">>) @@
    ("*.T.co" :> <<"*", ".", "T", ".", "c", "o">>) @@
    ("a.co:80" :> <<"a", ".", "c", "o", ":", "8", "0">>) @@
    ("http://x.co/a" :> <<"h", "t", "t", "p", ":", "/", "/", "x", ".", "c", "o", "/", "a">>) @@
    ("kw" :> <<"k", "w">>) @@
    (" " :> <<" ">>) @@
    ("t.co" :> <<"t", ".", "c", "o">>) @@
    ("s.t.co" :> <<"s", ".", "t", ".", "c", "o">>) @@
    ("x.s.t.co" :> <<"x", ".", "s", ".", "t", ".", "c", "o">>) @@
    ("at.co" :> <<"a", "t", ".", "c", "o">>) @@
    ("*.t.co" :> <<"*", ".", "t", ".", "c", "o">>) @@
    ("*" :> <<"*">>) @@
    ("a*.co" :> <<"a", "*", ".", "c", "o">>) @@
    ("*.*.co" :> <<"*", ".", "*", ".", "c", "o">>) @@
    ("*.co" :> <<"*", ".", "c", "o">>) @@
    ("*.-a.co" :> <<"*", ".", "-", "a", ".", "c", "o">>) @@
    ("localhost" :> <<"l", "o", "c", "a", "l", "h", "o", "s", "t">>) @@
    ("-a.co" :> <<"-", "a", ".", "c", "o">>) @@
    ("a:b/c" :> <<"a", ":", "b", "/", "c">>) @@
    (" *.A.co " :> <<" ", "*", ".", "A", ".", "c", "o", " ">>) @@
    ("https://a.co?q=1" :> <<"h", "t", "t", "p", "s", ":", "/", "/", "a", ".", "c", "o", "?", "q", "=", "1">>) @@
    ("https://u@a.co/p" :> <<"h", "t", "t", "p", "s", ":", "/", "/", "u", "@", "a", ".", "c", "o", "/", "p">>) @@
    ("a.co#f" :> <<"a", ".", "c", "o", "#", "f">>) @@
    (" A.co " :> <<" ", "A", ".", "c", "o", " ">>) @@
    ("https://" :> <<"h", "t", "t", "p", "s", ":", "/", "/">>) @@
    ("C 1" :> <<"C", " ", "1">>) @@
    ("p1" :> <<"p", "1">>) @@
    ("p2" :> <<"p", "2">>) @@
    (".js" :> <<".", "j", "s">>) @@
    ("c-1.js" :> <<"c", "-", "1", ".", "j", "s">>) @@
    ("c-1-1.js" :> <<"c", "-", "1", "-", "1", ".", "j", "s">>) @@
    ("c-1.txt" :> <<"c", "-", "1", ".", "t", "x", "t">>) @@
    ("https://s.t.co/" :> <<"h", "t", "t", "p", "s", ":", "/", "/", "s", ".", "t", ".", "c", "o", "/">>) @@
    ("URLS2" :> <<" ", "h", "t", "t", "p", ":", "/", "/", "x", ".", "c", "o", "/", "a", "\n", "\n",
                  "h", "t", "t", "p", "s", ":", "/", "/", "e", ".", "c", "o", " ", "\n">>) @@
    ("LEN255" :> [i \in 1..(MaxPatternLen - 2) |-> "a"] \o <<".", "c">>) @@
    ("LEN256" :> [i \in 1..(MaxPatternLen - 1) |-> "a"] \o <<".", "c">>) @@
    ("LEN256/" :> [i \in 1..MaxPatternLen |-> "a"] \o <<"/">>) @@
    ("cdn.co" :> <<"c", "d", "n", ".", "c", "o">>) @@
    (" App.co" :> <<" ", "A", "p", "p", ".", "c", "o">>) @@
    ("cdn" :> <<"c", "d", "n">>) @@
    ("CDN.co:8080" :> <<"C", "D", "N", ".", "c", "o", ":", "8", "0", "8", "0">>) @@
    ("app.co" :> <<"a", "p", "p", ".", "c", "o">>) @@
    ("/api/js/p1/s1.js" :> <<"/", "a", "p", "i", "/", "j", "s", "/", "p", "1", "/", "s", "1", ".", "j", "s">>) @@
    ("/api/jsx" :> <<"/", "a", "p", "i", "/", "j", "s", "x">>) @@
    ("/" :> <<"/">>) @@
    ("\n" :> <<"\n">>)

(***************************************************************************)
(* backend/validators.py                                                   *)
(***************************************************************************)
AlnumChars == {LowerChars[i] : i \in 1..26} \cup DigitChars

\* re.match(r'^[a-z0-9][a-z0-9.-]*[a-z0-9]$', s) on a stripped string
MatchesDomainRegex(s) ==
    /\ Len(s) >= 2
    /\ s[1] \in AlnumChars
    /\ s[Len(s)] \in AlnumChars
    /\ \A i \in 2..(Len(s) - 1) : s[i] \in AlnumChars \cup {".", "-"}

\* validate_domain_pattern: <<is_valid, message>>
validate_domain_pattern(raw) ==
    IF raw = <<>> THEN <<FALSE, "Domain pattern cannot be empty">>
    ELSE LET pattern == Strip(Lower(raw))
             rest == SubSeq(pattern, 3, Len(pattern))
         IN IF Len(pattern) > MaxPatternLen
              THEN <<FALSE, "Domain pattern too long (max 255)">>
            ELSE IF Contains(pattern, <<":", "/", "/">>) \/ Contains(pattern, <<"/">>)
              THEN <<FALSE, "Domain pattern must not contain protocol or path">>
            ELSE IF Contains(pattern, <<":">>)
              THEN <<FALSE, "Domain pattern must not contain port">>
            ELSE IF pattern = <<"*">>
              THEN <<FALSE, "Bare wildcard (*) is not allowed">>
            ELSE IF Contains(pattern, <<"*">>)
              THEN IF ~StartsWith(pattern, <<"*", ".">>)
                     THEN <<FALSE, "Wildcard only allowed as leading *.">>
                   ELSE IF Contains(rest, <<"*">>)
                     THEN <<FALSE, "Only one wildcard allowed">>
                   ELSE IF ~Contains(rest, <<".">>)
                     THEN <<FALSE, "Wildcard domain must have at least one dot">>
                   ELSE IF ~MatchesDomainRegex(rest)
                     THEN <<FALSE, "Invalid domain format after wildcard">>
                   ELSE <<TRUE, "Valid">>
            ELSE IF ~Contains(pattern, <<".">>)
              THEN <<FALSE, "Domain must contain at least one dot (no localhost)">>
            ELSE IF ~MatchesDomainRegex(pattern)
              THEN <<FALSE, "Domain contains invalid characters (only a-z, 0-9, ., - allowed)">>
            ELSE <<TRUE, "Valid">>

\* normalize_domain
normalize_domain(raw) ==
    IF raw = <<>> THEN <<>>
    ELSE LET d0 == Strip(Lower(raw))
             d1 == IF Contains(d0, <<":", "/", "/">>) THEN Split(d0, <<":", "/", "/">>)[2] ELSE d0
             d2 == IF Contains(d1, <<":">>) THEN Split(d1, <<":">>)[1] ELSE d1
             d3 == IF Contains(d2, <<"/">>) THEN Split(d2, <<"/">>)[1] ELSE d2
         IN d3

\* a matcher whose wildcard also takes the apex: the suffix is compared without its dot
is_domain_allowed_apex(domain, patterns) ==
    IF domain = <<>> \/ patterns = <<>> THEN FALSE
    ELSE LET d == normalize_domain(domain)
             lowered == [i \in 1..Len(patterns) |-> Strip(Lower(patterns[i]))]
             wildcard_patterns == {i \in 1..Len(lowered) : StartsWith(lowered[i], <<"*", ".">>)}
             exact_patterns == {lowered[i] : i \in (1..Len(lowered)) \ wildcard_patterns}
         IN \/ d \in exact_patterns
            \/ \E i \in wildcard_patterns :
                 EndsWith(d, SubSeq(lowered[i], 3, Len(lowered[i])))

\* is_domain_allowed(domain, patterns): patterns is a list
is_domain_allowed(domain, patterns) ==
    IF domain = <<>> \/ patterns = <<>> THEN FALSE
    ELSE LET d == normalize_domain(domain)
             lowered == [i \in 1..Len(patterns) |-> Strip(Lower(patterns[i]))]
             wildcard_patterns == {i \in 1..Len(lowered) : StartsWith(lowered[i], <<"*", ".">>)}
             exact_patterns == {lowered[i] : i \in (1..Len(lowered)) \ wildcard_patterns}
         IN \/ d \in exact_patterns
            \/ \E i \in wildcard_patterns :
                 LET suffix == SubSeq(lowered[i], 3, Len(lowered[i]))
                 IN EndsWith(d, <<".">> \o suffix) /\ d # suffix

(***************************************************************************)
(* backend/server.py: constants and response constructors                  *)
(***************************************************************************)
NOOP_JS == "/* unauthorized or inactive */\n/* noop */"

JS_CACHE_HEADERS == {<<"Cache-Control", "public, max-age=60">>, <<"Vary", "Origin, Referer">>}

JS_MEDIA_TYPE == "application/javascript; charset=utf-8"

HTML_MEDIA_TYPE == "text/html; charset=utf-8"

DIRECT_ACCESS_HTML == "<!DOCTYPE html> ... Direct Access Not Allowed ..."

CDN_HTML == "<!DOCTYPE html> ... CDN Endpoint ..."

\* a response body: a text, plus the link rows spliced into a generated script
Body(text) == [text |-> text, parts |-> <<>>]

\* starlette Response(content=..., media_type=..., headers=...), status_code defaults to 200
Response(content, media_type, headers) ==
    [status |-> 200, body |-> content, media_type |-> media_type, headers |-> headers,
     raised |-> FALSE]

\* HTMLResponse(content=..., status_code=...)
HTMLResponse(content, status_code) ==
    [status |-> status_code, body |-> content, media_type |-> HTML_MEDIA_TYPE, headers |-> {},
     raised |-> FALSE]

\* an exception leaving the handler: the HTTP layer answers 500
UnhandledError ==
    [status |-> 500, body |-> Body("Internal Server Error"), media_type |-> "text/plain",
     headers |-> {}, raised |-> TRUE]

\* no exchange recorded
NoResponse ==
    [status |-> 0, body |-> Body(""), media_type |-> "", headers |-> {}, raised |-> FALSE]

noop_response == Response(Body(NOOP_JS), JS_MEDIA_TYPE, JS_CACHE_HEADERS)

direct_access_response == HTMLResponse(Body(DIRECT_ACCESS_HTML), 403)

(***************************************************************************)
(* deliver_js.is_script_request: headers is the request's header map, an   *)
(* absent header reads as the empty string; Chars gives a header value's   *)
(* characters                                                              *)
(***************************************************************************)
\* a classifier that ends with the Origin / Referer rule and then answers true
is_script_request_default_true(headers) ==
    LET sec_fetch_dest == Lower(Chars[headers.sec_fetch_dest])
        sec_fetch_mode == Lower(Chars[headers.sec_fetch_mode])
        accept == Chars[headers.accept]
        text_html == <<"t", "e", "x", "t", "/", "h", "t", "m", "l">>
    IN IF sec_fetch_dest = <<"s", "c", "r", "i", "p", "t">> THEN TRUE
       ELSE IF sec_fetch_dest = <<"d", "o", "c", "u", "m", "e", "n", "t">> THEN FALSE
       ELSE IF sec_fetch_mode = <<"n", "a", "v", "i", "g", "a", "t", "e">> THEN FALSE
       ELSE IF sec_fetch_mode \in {<<"c", "o", "r", "s">>, <<"n", "o", "-", "c", "o", "r", "s">>}
         THEN TRUE
       ELSE IF Contains(accept, text_html) /\ ~Contains(accept, <<"*", "/", "*">>) THEN FALSE
       ELSE TRUE

is_script_request(headers) ==
    LET sec_fetch_dest == Lower(Chars[headers.sec_fetch_dest])
        sec_fetch_mode == Lower(Chars[headers.sec_fetch_mode])
        accept == Chars[headers.accept]
        text_html == <<"t", "e", "x", "t", "/", "h", "t", "m", "l">>
    IN IF sec_fetch_dest = <<"s", "c", "r", "i", "p", "t">> THEN TRUE
       ELSE IF sec_fetch_dest = <<"d", "o", "c", "u", "m", "e", "n", "t">> THEN FALSE
       ELSE IF sec_fetch_mode = <<"n", "a", "v", "i", "g", "a", "t", "e">> THEN FALSE
       ELSE IF sec_fetch_mode \in {<<"c", "o", "r", "s">>, <<"n", "o", "-", "c", "o", "r", "s">>}
         THEN TRUE
       ELSE IF Contains(accept, text_html) /\ ~Contains(accept, <<"*", "/", "*">>) THEN FALSE
       ELSE IF headers.origin # "" \/ headers.referer # "" THEN TRUE
       ELSE IF Contains(accept, text_html) THEN FALSE
       ELSE TRUE

(***************************************************************************)
(* generate_link_injection_js                                              *)
(***************************************************************************)
\* .replace('\\', '\\\\').replace('"', '\\"').replace('\n', '').replace('\r', '')
EscapeLinkText(s) ==
    Replace(Replace(Replace(Replace(s, "\\", <<"\\", "\\">>), "\"", <<"\\", "\"">>),
                    "\n", <<>>), "\r", <<>>)

RECURSIVE LinkParts(_)
LinkParts(links) ==
    IF links = <<>> THEN <<>>
    ELSE LET url == EscapeLinkText(Chars[Head(links).url])
             keyword == EscapeLinkText(Chars[Head(links).keyword])
         IN (IF url # <<>> /\ keyword # <<>> THEN <<[url |-> url, keyword |-> keyword]>>
             ELSE <<>>) \o LinkParts(Tail(links))

\* the script that injects the hidden links; its link rows are the body's parts
LINK_INJECTION_JS == "(function(){var h=...;})();"

generate_link_injection_js(links) ==
    IF links = <<>> THEN Body(NOOP_JS)
    ELSE IF LinkParts(links) = <<>> THEN Body(NOOP_JS)
    ELSE [text |-> LINK_INJECTION_JS, parts |-> LinkParts(links)]

(***************************************************************************)
(* deliver_js.secondary_response                                           *)
(***************************************************************************)
\* a fallback that hands out the primary script
secondary_response_primary(script) ==
    Response(Body(script.js_code), JS_MEDIA_TYPE, JS_CACHE_HEADERS)

secondary_response(script) ==
    LET mode == IF script.secondary_script_mode = "" THEN "js" ELSE script.secondary_script_mode
    IN IF mode = "links"
         THEN IF script.secondary_script_links # <<>>
                THEN Response(generate_link_injection_js(script.secondary_script_links),
                              JS_MEDIA_TYPE, JS_CACHE_HEADERS)
              ELSE noop_response
       ELSE IF script.secondary_script # ""
         THEN Response(Body(script.secondary_script), JS_MEDIA_TYPE, JS_CACHE_HEADERS)
       ELSE noop_response

(***************************************************************************)
(* Bounds and input sets                                                   *)
(***************************************************************************)
\* rows the script_whitelists table may hold
MaxWhitelists == 1

\* rows the access_logs table may hold for one project
MaxLogs == 1

UserIds == {1, 2}

\* users whose role is 'admin' (is_user_admin)
AdminIds == {2}

ProjectIds == {1}

ScriptIds == {1}

WhitelistIds == 1..MaxWhitelists

\* slugs generate_unique_slug may draw
ProjectSlugs == {"p1"}

\* slugs generate_script_slug may draw
ScriptSlugs == {"s1"}

JsCodes == {"JS_A"}

GoodLink == [url |-> "http://x.co/a", keyword |-> "kw"]

\* the keyword is only a line break: nothing is left of it once escaped
BadLink == [url |-> "http://x.co/a", keyword |-> "\n"]

\* secondary settings a ScriptCreate / ScriptUpdate body may carry ("" is None)
SecondaryInputs ==
    { [secondary_script |-> "",      secondary_script_mode |-> "js",    secondary_script_links |-> <<>>],
      [secondary_script |-> "SEC_A", secondary_script_mode |-> "js",    secondary_script_links |-> <<GoodLink>>],
      [secondary_script |-> "SEC_A", secondary_script_mode |-> "links", secondary_script_links |-> <<>>],
      [secondary_script |-> "SEC_A", secondary_script_mode |-> "links", secondary_script_links |-> <<BadLink>>],
      [secondary_script |-> "",      secondary_script_mode |-> "links", secondary_script_links |-> <<BadLink, GoodLink>>] }

\* a ScriptUpdate body without secondary_* fields
NoSecondary ==
    [secondary_script |-> "None", secondary_script_mode |-> "None", secondary_script_links |-> <<>>]

\* domain_pattern values a WhitelistCreate / WhitelistUpdate body may carry
PatternInputs == {"a.co", "*.T.co", "a.co:80"}

\* sec-fetch-dest, sec-fetch-mode and accept headers of a delivery request ("" is an
\* absent header)
FetchHeaderInputs ==
    { [sec_fetch_dest |-> "",         sec_fetch_mode |-> "",         accept |-> ""],
      [sec_fetch_dest |-> "script",   sec_fetch_mode |-> "navigate", accept |-> "text/html"],
      [sec_fetch_dest |-> "Document", sec_fetch_mode |-> "cors",     accept |-> "*/*"],
      [sec_fetch_dest |-> "",         sec_fetch_mode |-> "",         accept |-> "text/html,*/*"] }

\* Origin and Referer headers of a delivery request
CallerInputs ==
    { [origin |-> "",                 referer |-> ""],
      [origin |-> "HTTPS://A.co:443", referer |-> "https://e.co"],
      [origin |-> "https://s.t.co",   referer |-> ""],
      [origin |-> "https://e.co",     referer |-> "https://a.co/p"],
      [origin |-> "",                 referer |-> "https://a.co/p"] }

\* /api/js/{project_slug}/{script_file}
PathInputs ==
    { [project_slug |-> "p1", script_file |-> "s1.js"],
      [project_slug |-> "p1", script_file |-> "s1.txt"],
      [project_slug |-> "p0", script_file |-> "s1.js"] }

\* the storage call of the exchange that raises, if any
Faults == {"none", "project", "script", "log"}

DeliveryRequests ==
    { [kind |-> "js", project_slug |-> p.project_slug, script_file |-> p.script_file,
       headers |-> [sec_fetch_dest |-> f.sec_fetch_dest, sec_fetch_mode |-> f.sec_fetch_mode,
                    accept |-> f.accept, origin |-> c.origin, referer |-> c.referer],
       fault |-> x] :
      p \in PathInputs, f \in FetchHeaderInputs, c \in CallerInputs, x \in Faults }

NoRequest == [kind |-> "none"]

\* lookups: the tables read; logged: the access rows written; calls: the times the
\* middleware invoked call_next
NoTrace == [lookups |-> <<>>, logged |-> <<>>, calls |-> 0]

\* rows the custom_domains table may hold
MaxDomains == 1

DomainIds == 1..MaxDomains

\* domain values a CustomDomainCreate body may carry
DomainInputs == {"cdn.co", " App.co", "cdn"}

\* what the DNS and HTTP probes of verify_custom_domain find
ProbeInputs ==
    { [is_verified |-> TRUE,  cloudflare_detected |-> FALSE],
      [is_verified |-> FALSE, cloudflare_detected |-> TRUE],
      [is_verified |-> FALSE, cloudflare_detected |-> FALSE] }

\* Host headers ("" is an absent header)
HostInputs == {"", "cdn.co", "CDN.co:8080", "app.co"}

RouterPathInputs == {"/api/js/p1/s1.js", "/api/jsx", "/"}

\* what the first and the second invocation of call_next do
DownstreamInputs == {<<"returns", "returns">>, <<"raises", "returns">>, <<"raises", "raises">>}

RouterRequests ==
    { [kind |-> "http", host |-> h, path |-> p, fault |-> x, downstream |-> d] :
      h \in HostInputs, p \in RouterPathInputs, x \in {"none", "lookup"},
      d \in DownstreamInputs }

\* no page has loaded an engine script
NoClient == [loaded |-> FALSE]

(***************************************************************************)
(* State: the tables of backend/models.py and the exchange being answered  *)
(***************************************************************************)
VARIABLES
    projects,        \* Project rows
    scripts,         \* Script rows
    whitelists,      \* ScriptWhitelist rows
    access_logs,     \* AccessLog: the number of rows of each project (the rows an
                     \* exchange writes are in trace.logged)
    custom_domains,  \* CustomDomain rows
    req,             \* the request being answered, NoRequest when none is
    resp,            \* its response
    trace,           \* the storage calls the handler made for it
    popunder_campaigns,  \* PopunderCampaign rows
    client           \* a browser page running the popunder engine script

vars == <<projects, scripts, whitelists, access_logs, custom_domains, req, resp, trace,
          popunder_campaigns, client>>

tables == <<projects, scripts, whitelists, access_logs, custom_domains, popunder_campaigns>>

exchange == <<req, resp, trace>>

\* the rows of a set in primary-key order
RECURSIVE ById(_)
ById(rows) ==
    IF rows = {} THEN <<>>
    ELSE LET first == CHOOSE r \in rows : \A q \in rows : r.id <= q.id
         IN <<first>> \o ById(rows \ {first})

\* an unused primary key
NewId(ids, rows) == CHOOSE i \in ids : i \notin {r.id : r \in rows} /\
                        \A j \in ids : j \notin {r.id : r \in rows} => i <= j

(***************************************************************************)
(* _log_access: the rows the call adds to access_logs (none when the       *)
(* commit raises: the exception is caught and logged locally)              *)
(***************************************************************************)
\* a recorder that writes every decision as a denial
_log_access_denied(request, project_id, script_id, allowed, domain) ==
    LET full_referer == IF request.headers.referer # "" THEN request.headers.referer
                        ELSE request.headers.origin
        row == [project_id |-> project_id,
                script_id |-> script_id,
                ref_domain |-> IF domain # <<>> THEN domain
                               ELSE normalize_domain(Chars[full_referer]),
                allowed |-> FALSE]
    IN IF request.fault = "log" THEN <<>> ELSE <<row>>

_log_access(request, project_id, script_id, allowed, domain) ==
    LET full_referer == IF request.headers.referer # "" THEN request.headers.referer
                        ELSE request.headers.origin
        row == [project_id |-> project_id,
                script_id |-> script_id,
                ref_domain |-> IF domain # <<>> THEN domain
                               ELSE normalize_domain(Chars[full_referer]),
                allowed |-> allowed]
    IN IF request.fault = "log" THEN <<>> ELSE <<row>>

(***************************************************************************)
(* deliver_js on the tables P (projects), S (scripts), W (whitelists):     *)
(* the response, the lookups made and the access rows written.             *)
(* script_id 0 is None.                                                    *)
(***************************************************************************)
Outcome(response, lookups, logged) ==
    [resp |-> response, lookups |-> lookups, logged |-> logged]

\* a caller domain read from the Referer before the Origin
caller_domain_referer_first(request) ==
    LET origin == request.headers.origin
        referer == request.headers.referer
        raw_domain == IF referer # "" THEN referer ELSE origin
    IN normalize_domain(Chars[raw_domain])

\* the domain extracted from Origin or Referer
caller_domain(request) ==
    LET origin == request.headers.origin
        referer == request.headers.referer
        raw_domain == IF origin # "" THEN origin ELSE referer
    IN normalize_domain(Chars[raw_domain])

\* the patterns of every whitelist row of the script, switched off or not
all_patterns(W, script) ==
    LET rows == ById({w \in W : w.script_id = script.id})
    IN [i \in 1..Len(rows) |-> rows[i].domain_pattern]

\* [w.domain_pattern for w in script.whitelists if w.is_active]
active_patterns(W, script) ==
    LET rows == ById({w \in W : w.script_id = script.id /\ w.is_active})
    IN [i \in 1..Len(rows) |-> rows[i].domain_pattern]

\* a match step that refuses every caller of a script with no active pattern
deliver_js_match_fail_closed(P, S, W, request, project, script) ==
    LET domain == caller_domain(request)
        patterns == active_patterns(W, script)
        primary == Response(Body(script.js_code), JS_MEDIA_TYPE, JS_CACHE_HEADERS)
        both == <<"project", "script">>
    IN IF is_domain_allowed(domain, patterns)
         THEN Outcome(primary, both,
                      _log_access(request, project.id, script.id, TRUE, domain))
       ELSE Outcome(secondary_response(script), both,
                    _log_access(request, project.id, script.id, FALSE, domain))

deliver_js_match(P, S, W, request, project, script) ==
    LET domain == caller_domain(request)
        patterns == active_patterns(W, script)
        primary == Response(Body(script.js_code), JS_MEDIA_TYPE, JS_CACHE_HEADERS)
        both == <<"project", "script">>
    IN IF patterns # <<>>
         THEN IF is_domain_allowed(domain, patterns)
                THEN Outcome(primary, both,
                             _log_access(request, project.id, script.id, TRUE, domain))
              ELSE Outcome(secondary_response(script), both,
                           _log_access(request, project.id, script.id, FALSE, domain))
       ELSE Outcome(primary, both,
                    _log_access(request, project.id, script.id, TRUE, domain))

\* a handler that answers a disabled script with its fallback
deliver_js_script_disabled_fallback(P, S, W, request, project) ==
    LET script_file == Chars[request.script_file]
        script_slug == SubSeq(script_file, 1, Len(script_file) - 3)
        found == {s \in S : s.project_id = project.id /\ Chars[s.slug] = script_slug}
        script == CHOOSE s \in found : TRUE
        both == <<"project", "script">>
    IN IF request.fault = "script" THEN Outcome(UnhandledError, both, <<>>)
       ELSE IF found = {}
         THEN Outcome(noop_response, both, _log_access(request, project.id, 0, FALSE, <<>>))
       ELSE IF script.status = "disabled"
         THEN Outcome(secondary_response(script), both,
                      _log_access(request, project.id, script.id, FALSE, <<>>))
       ELSE deliver_js_match(P, S, W, request, project, script)

\* a handler that returns at once, recording nothing, when the script is missing
deliver_js_script_missing_unlogged(P, S, W, request, project) ==
    LET script_file == Chars[request.script_file]
        script_slug == SubSeq(script_file, 1, Len(script_file) - 3)
        found == {s \in S : s.project_id = project.id /\ Chars[s.slug] = script_slug}
        script == CHOOSE s \in found : TRUE
        both == <<"project", "script">>
    IN IF request.fault = "script" THEN Outcome(UnhandledError, both, <<>>)
       ELSE IF found = {} THEN Outcome(noop_response, both, <<>>)
       ELSE IF script.status = "disabled"
         THEN Outcome(noop_response, both,
                      _log_access(request, project.id, script.id, FALSE, <<>>))
       ELSE deliver_js_match(P, S, W, request, project, script)

deliver_js_script(P, S, W, request, project) ==
    LET script_file == Chars[request.script_file]
        script_slug == SubSeq(script_file, 1, Len(script_file) - 3)
        found == {s \in S : s.project_id = project.id /\ Chars[s.slug] = script_slug}
        script == CHOOSE s \in found : TRUE
        both == <<"project", "script">>
    IN IF request.fault = "script" THEN Outcome(UnhandledError, both, <<>>)
       ELSE IF found = {}
         THEN Outcome(noop_response, both, _log_access(request, project.id, 0, FALSE, <<>>))
       ELSE IF script.status = "disabled"
         THEN Outcome(noop_response, both,
                      _log_access(request, project.id, script.id, FALSE, <<>>))
       ELSE deliver_js_match(P, S, W, request, project, script)

\* a file name check that lets every name through
ends_with_js_any(script_file) == TRUE

\* script_file.endswith('.js')
ends_with_js(script_file) == EndsWith(Chars[script_file], <<".", "j", "s">>)

\* a handler that classifies the request last, once the project and the script are
\* known to exist and be active
deliver_js_result_classify_last(P, S, W, request) ==
    LET found == {p \in P : p.slug = request.project_slug}
        project == CHOOSE p \in found : TRUE
        o == deliver_js_script(P, S, W, request, project)
    IN IF ~ends_with_js(request.script_file)
         THEN Outcome(noop_response, <<>>, <<>>)
       ELSE IF request.fault = "project"
         THEN Outcome(UnhandledError, <<"project">>, <<>>)
       ELSE IF found = {}
         THEN Outcome(noop_response, <<"project">>, <<>>)
       ELSE IF project.status = "paused"
         THEN Outcome(noop_response, <<"project">>,
                      _log_access(request, project.id, 0, FALSE, <<>>))
       ELSE IF o.resp = noop_response \/ o.resp.raised \/ is_script_request(request.headers)
         THEN o
       ELSE Outcome(direct_access_response, o.lookups, <<>>)

deliver_js_result(P, S, W, request) ==
    LET found == {p \in P : p.slug = request.project_slug}
        project == CHOOSE p \in found : TRUE
    IN IF ~is_script_request(request.headers)
         THEN Outcome(direct_access_response, <<>>, <<>>)
       ELSE IF ~ends_with_js(request.script_file)
         THEN Outcome(noop_response, <<>>, <<>>)
       ELSE IF request.fault = "project"
         THEN Outcome(UnhandledError, <<"project">>, <<>>)
       ELSE IF found = {}
         THEN Outcome(noop_response, <<"project">>, <<>>)
       ELSE IF project.status = "paused"
         THEN Outcome(noop_response, <<"project">>,
                      _log_access(request, project.id, 0, FALSE, <<>>))
       ELSE deliver_js_script(P, S, W, request, project)

(***************************************************************************)
(* Initial state: init_db() has created empty tables                       *)
(***************************************************************************)
Init ==
    /\ projects = {}
    /\ scripts = {}
    /\ whitelists = {}
    /\ access_logs = [p \in ProjectIds |-> 0]
    /\ custom_domains = {}
    /\ popunder_campaigns = {}
    /\ client = NoClient
    /\ req = NoRequest
    /\ resp = NoResponse
    /\ trace = NoTrace

\* handlers are modelled one exchange at a time
Idle == req = NoRequest

(***************************************************************************)
(* Management API (project, script and whitelist routes)                   *)
(***************************************************************************)
\* get_user_project: the project the user may access (empty: 404)
get_user_project(project_id, user_id) ==
    {p \in projects : p.id = project_id /\ (user_id \in AdminIds \/ p.user_id = user_id)}

create_project(user_id, status) ==
    /\ Idle
    /\ status \in {"active", "paused"}
    /\ \E i \in ProjectIds : i \notin {p.id : p \in projects}
    /\ \E slug \in ProjectSlugs :
         /\ slug \notin {p.slug : p \in projects}
         /\ projects' = projects \cup
                {[id |-> NewId(ProjectIds, projects), user_id |-> user_id,
                  slug |-> slug, status |-> status]}
    /\ UNCHANGED <<scripts, whitelists, access_logs, custom_domains, exchange, popunder_campaigns, client>>

update_project(user_id, project_id, status) ==
    /\ Idle
    /\ get_user_project(project_id, user_id) # {}
    /\ status \in {"active", "paused"}
    /\ projects' = {IF p.id = project_id THEN [p EXCEPT !.status = status] ELSE p :
                    p \in projects}
    /\ UNCHANGED <<scripts, whitelists, access_logs, custom_domains, exchange, popunder_campaigns, client>>

\* the delete cascades to the project's scripts, their whitelists and its access logs
delete_project(user_id, project_id) ==
    /\ Idle
    /\ get_user_project(project_id, user_id) # {}
    /\ LET gone == {s.id : s \in {x \in scripts : x.project_id = project_id}}
       IN /\ projects' = {p \in projects : p.id # project_id}
          /\ scripts' = {s \in scripts : s.project_id # project_id}
          /\ whitelists' = {w \in whitelists : w.script_id \notin gone}
          /\ access_logs' = [access_logs EXCEPT ![project_id] = 0]
    /\ UNCHANGED <<custom_domains, exchange, popunder_campaigns, client>>

create_script(user_id, project_id, status, sec) ==
    /\ Idle
    /\ get_user_project(project_id, user_id) # {}
    /\ status \in {"active", "disabled"}
    /\ \E i \in ScriptIds : i \notin {s.id : s \in scripts}
    /\ \E slug \in ScriptSlugs, code \in JsCodes :
         /\ slug \notin {s.slug : s \in {x \in scripts : x.project_id = project_id}}
         /\ scripts' = scripts \cup
                {[id |-> NewId(ScriptIds, scripts), project_id |-> project_id, slug |-> slug,
                  js_code |-> code, status |-> status,
                  secondary_script |-> sec.secondary_script,
                  secondary_script_mode |->
                      IF sec.secondary_script_mode = "" THEN "js" ELSE sec.secondary_script_mode,
                  secondary_script_links |-> sec.secondary_script_links]}
    /\ UNCHANGED <<projects, whitelists, access_logs, custom_domains, exchange, popunder_campaigns, client>>

\* status "None": the body carries no status; sec = NoSecondary: it carries no
\* secondary_* field
update_script(user_id, project_id, script_id, status, sec) ==
    /\ Idle
    /\ get_user_project(project_id, user_id) # {}
    /\ \E s \in scripts : s.id = script_id /\ s.project_id = project_id
    /\ status \in {"None", "active", "disabled"}
    /\ sec.secondary_script_mode \in {"None", "js", "links"}
    /\ scripts' =
         {IF s.id = script_id
          THEN [s EXCEPT
                  !.status = IF status = "None" THEN @ ELSE status,
                  !.secondary_script = IF sec = NoSecondary THEN @ ELSE sec.secondary_script,
                  !.secondary_script_mode =
                      IF sec = NoSecondary THEN @ ELSE sec.secondary_script_mode,
                  !.secondary_script_links =
                      IF sec = NoSecondary THEN @ ELSE sec.secondary_script_links]
          ELSE s : s \in scripts}
    /\ UNCHANGED <<projects, whitelists, access_logs, custom_domains, exchange, popunder_campaigns, client>>

\* the delete cascades to the script's whitelists; access_logs.script_id is SET NULL,
\* which removes no row
delete_script(user_id, project_id, script_id) ==
    /\ Idle
    /\ get_user_project(project_id, user_id) # {}
    /\ \E s \in scripts : s.id = script_id /\ s.project_id = project_id
    /\ scripts' = {s \in scripts : s.id # script_id}
    /\ whitelists' = {w \in whitelists : w.script_id # script_id}
    /\ UNCHANGED <<projects, access_logs, custom_domains, exchange, popunder_campaigns, client>>

\* what a whitelist route answers and the script_whitelists rows it leaves; status 0: the
\* insert needs a primary key and the table holds none that is free
WhitelistOutcome(status, rows) == [status |-> status, whitelists |-> rows]

\* add_whitelist with the primary keys the table may hand out
add_whitelist_result(ids, user_id, project_id, script_id, domain_pattern) ==
    LET pattern == Strip(Lower(Chars[domain_pattern]))
    IN IF get_user_project(project_id, user_id) = {} THEN WhitelistOutcome(404, whitelists)
       ELSE IF ~\E s \in scripts : s.id = script_id /\ s.project_id = project_id
         THEN WhitelistOutcome(404, whitelists)
       ELSE IF ~validate_domain_pattern(pattern)[1] THEN WhitelistOutcome(400, whitelists)
       ELSE IF \E w \in whitelists : w.script_id = script_id /\ w.domain_pattern = pattern
         THEN WhitelistOutcome(400, whitelists)
       ELSE IF ids \subseteq {w.id : w \in whitelists} THEN WhitelistOutcome(0, whitelists)
       ELSE WhitelistOutcome(200, whitelists \cup
                {[id |-> NewId(ids, whitelists), script_id |-> script_id,
                  domain_pattern |-> pattern, is_active |-> TRUE]})

add_whitelist_within(ids, user_id, project_id, script_id, domain_pattern) ==
    /\ Idle
    /\ \E o \in {add_whitelist_result(ids, user_id, project_id, script_id, domain_pattern)} :
         /\ o.status \in {200, 400}
         /\ whitelists' = o.whitelists
    /\ UNCHANGED <<projects, scripts, access_logs, custom_domains, exchange, popunder_campaigns, client>>

add_whitelist(user_id, project_id, script_id, domain_pattern) ==
    add_whitelist_within(WhitelistIds, user_id, project_id, script_id, domain_pattern)

\* an update that stores the pattern of the body without validating it
update_whitelist_result_unvalidated(user_id, project_id, script_id, whitelist_id, domain_pattern, is_active) ==
    IF get_user_project(project_id, user_id) = {} THEN WhitelistOutcome(404, whitelists)
    ELSE IF ~\E w \in whitelists : w.id = whitelist_id /\ w.script_id = script_id
      THEN WhitelistOutcome(404, whitelists)
    ELSE WhitelistOutcome(200,
             {IF w.id = whitelist_id /\ w.script_id = script_id
              THEN [w EXCEPT
                      !.domain_pattern = IF domain_pattern # "None"
                                         THEN Strip(Lower(Chars[domain_pattern])) ELSE @,
                      !.is_active = IF is_active = "None" THEN @ ELSE is_active = "True"]
              ELSE w : w \in whitelists})

\* domain_pattern "None", is_active "None": the body does not carry the field
update_whitelist_result(user_id, project_id, script_id, whitelist_id, domain_pattern, is_active) ==
    LET set_pattern == domain_pattern # "None"
        pattern == Strip(Lower(Chars[domain_pattern]))
    IN IF get_user_project(project_id, user_id) = {} THEN WhitelistOutcome(404, whitelists)
       ELSE IF ~\E w \in whitelists : w.id = whitelist_id /\ w.script_id = script_id
         THEN WhitelistOutcome(404, whitelists)
       ELSE IF set_pattern /\ ~validate_domain_pattern(pattern)[1]
         THEN WhitelistOutcome(400, whitelists)
       ELSE WhitelistOutcome(200,
                {IF w.id = whitelist_id /\ w.script_id = script_id
                 THEN [w EXCEPT
                         !.domain_pattern = IF set_pattern THEN pattern ELSE @,
                         !.is_active = IF is_active = "None" THEN @ ELSE is_active = "True"]
                 ELSE w : w \in whitelists})

update_whitelist(user_id, project_id, script_id, whitelist_id, domain_pattern, is_active) ==
    /\ Idle
    /\ is_active \in {"None", "True", "False"}
    /\ \E o \in {update_whitelist_result(user_id, project_id, script_id, whitelist_id,
                                         domain_pattern, is_active)} :
         /\ o.status # 404
         /\ whitelists' = o.whitelists
    /\ UNCHANGED <<projects, scripts, access_logs, custom_domains, exchange, popunder_campaigns, client>>

delete_whitelist_result(user_id, project_id, script_id, whitelist_id) ==
    IF get_user_project(project_id, user_id) = {} THEN WhitelistOutcome(404, whitelists)
    ELSE IF ~\E w \in whitelists : w.id = whitelist_id /\ w.script_id = script_id
      THEN WhitelistOutcome(404, whitelists)
    ELSE WhitelistOutcome(200,
             {w \in whitelists : ~(w.id = whitelist_id /\ w.script_id = script_id)})

delete_whitelist(user_id, project_id, script_id, whitelist_id) ==
    /\ Idle
    /\ \E o \in {delete_whitelist_result(user_id, project_id, script_id, whitelist_id)} :
         /\ o.status # 404
         /\ whitelists' = o.whitelists
    /\ UNCHANGED <<projects, scripts, access_logs, custom_domains, exchange, popunder_campaigns, client>>

clear_access_logs(user_id, project_id) ==
    /\ Idle
    /\ get_user_project(project_id, user_id) # {}
    /\ access_logs' = [access_logs EXCEPT ![project_id] = 0]
    /\ UNCHANGED <<projects, scripts, whitelists, custom_domains, exchange, popunder_campaigns, client>>

(***************************************************************************)
(* GET /api/js/{project_slug}/{script_file}                                *)
(***************************************************************************)
deliver_js(request) ==
    /\ Idle
    /\ \A p \in ProjectIds : access_logs[p] < MaxLogs
    /\ \E o \in {deliver_js_result(projects, scripts, whitelists, request)} :
          /\ req' = request
          /\ resp' = o.resp
          /\ trace' = [lookups |-> o.lookups, logged |-> o.logged, calls |-> 0]
          /\ access_logs' = [p \in ProjectIds |->
                                access_logs[p] +
                                Len(SelectSeq(o.logged, LAMBDA l : l.project_id = p))]
    /\ UNCHANGED <<projects, scripts, whitelists, custom_domains, popunder_campaigns, client>>

\* the client has the response: the exchange is over
receive_response ==
    /\ ~Idle
    /\ req' = NoRequest
    /\ resp' = NoResponse
    /\ trace' = NoTrace
    /\ UNCHANGED <<tables, client>>

(***************************************************************************)
(* cdn_domain_middleware on the table D (custom_domains): the response,    *)
(* the lookups made and the times call_next was invoked                    *)
(***************************************************************************)
\* the n-th invocation of call_next: the rest of the application answers the request, or
\* an exception leaves it
call_next(request, n) ==
    IF request.downstream[n] = "raises" THEN UnhandledError
    ELSE Response(Body(request.path), "downstream", {})

RouterOutcome(response, lookups, calls) ==
    [resp |-> response, lookups |-> lookups, calls |-> calls]

cdn_info_response(host) == HTMLResponse([text |-> CDN_HTML, parts |-> <<[host |-> host]>>], 200)

\* a lookup that takes any active row of the host
cdn_domain_lookup_any_status(D, host) == {d \in D : d.domain = host /\ d.is_active}

\* select(CustomDomain).where(domain == host, is_active == True, status == 'verified')
cdn_domain_lookup(D, host) ==
    {d \in D : d.domain = host /\ d.is_active /\ d.status = "verified"}

\* a middleware whose lookup is not guarded: its exception leaves the middleware
cdn_domain_middleware_result_unguarded(D, request) ==
    LET host == Lower(Split(Chars[request.host], <<":">>)[1])
        path == Chars[request.path]
        cdn_domain == cdn_domain_lookup(D, host)
        first == call_next(request, 1)
    IN IF host = <<>> THEN RouterOutcome(first, <<>>, 1)
       ELSE IF request.fault = "lookup"
         THEN RouterOutcome(UnhandledError, <<"custom_domain">>, 0)
       ELSE IF cdn_domain # {}
         THEN IF StartsWith(path, <<"/", "a", "p", "i", "/", "j", "s", "/">>)
                THEN RouterOutcome(first, <<"custom_domain">>, 1)
              ELSE RouterOutcome(cdn_info_response(host), <<"custom_domain">>, 0)
       ELSE RouterOutcome(first, <<"custom_domain">>, 1)

cdn_domain_middleware_result(D, request) ==
    LET host == Lower(Split(Chars[request.host], <<":">>)[1])
        path == Chars[request.path]
        cdn_domain == cdn_domain_lookup(D, host)
        first == call_next(request, 1)
    IN IF host = <<>> THEN RouterOutcome(first, <<>>, 1)
       ELSE IF request.fault = "lookup"
         THEN RouterOutcome(first, <<"custom_domain">>, 1)
       ELSE IF cdn_domain # {}
         THEN IF StartsWith(path, <<"/", "a", "p", "i", "/", "j", "s", "/">>)
                THEN IF first.raised
                       \* the exception is caught by the handler of the lookup
                       THEN RouterOutcome(call_next(request, 2), <<"custom_domain">>, 2)
                     ELSE RouterOutcome(first, <<"custom_domain">>, 1)
              ELSE RouterOutcome(cdn_info_response(host), <<"custom_domain">>, 0)
       ELSE RouterOutcome(first, <<"custom_domain">>, 1)

(***************************************************************************)
(* Custom domain routes                                                    *)
(***************************************************************************)
add_custom_domain(user_id, raw) ==
    /\ Idle
    /\ LET domain == Strip(Lower(Chars[raw]))
       IN IF domain = <<>> \/ Contains(domain, <<"/">>) \/ Contains(domain, <<":">>)
               \/ Contains(domain, <<" ">>)
            THEN UNCHANGED custom_domains                        \* 400
          ELSE IF ~Contains(domain, <<".">>)
            THEN UNCHANGED custom_domains                        \* 400
          ELSE IF \E d \in custom_domains : d.domain = domain
            THEN UNCHANGED custom_domains                        \* 400
          ELSE /\ \E i \in DomainIds : i \notin {d.id : d \in custom_domains}
               /\ custom_domains' = custom_domains \cup
                      {[id |-> NewId(DomainIds, custom_domains), domain |-> domain,
                        status |-> "pending", is_active |-> FALSE]}
    /\ UNCHANGED <<projects, scripts, whitelists, access_logs, exchange, popunder_campaigns, client>>

verify_custom_domain(user_id, domain_id, probe) ==
    /\ Idle
    /\ \E d \in custom_domains : d.id = domain_id
    /\ custom_domains' =
         {IF d.id # domain_id THEN d
          ELSE LET status1 == IF ~probe.is_verified /\ probe.cloudflare_detected
                              THEN "cloudflare_pending" ELSE d.status
               IN IF probe.is_verified
                    THEN [d EXCEPT !.status = "verified", !.is_active = TRUE]
                  ELSE IF status1 # "cloudflare_pending"
                    THEN [d EXCEPT !.status = "failed", !.is_active = FALSE]
                  ELSE [d EXCEPT !.status = status1] :
          d \in custom_domains}
    /\ UNCHANGED <<projects, scripts, whitelists, access_logs, exchange, popunder_campaigns, client>>

\* is_active "None": the body carries no is_active
update_custom_domain(user_id, domain_id, is_active) ==
    /\ Idle
    /\ \E d \in custom_domains : d.id = domain_id
    /\ is_active \in {"None", "True", "False"}
    /\ custom_domains' =
         {IF d.id # domain_id \/ is_active = "None" THEN d
          ELSE IF is_active = "True" /\ d.status \notin {"verified", "cloudflare_pending"}
            THEN d                                               \* 400
          ELSE [d EXCEPT !.is_active = (is_active = "True"),
                         !.status = IF is_active = "True" /\ d.status = "cloudflare_pending"
                                    THEN "verified" ELSE @] :
          d \in custom_domains}
    /\ UNCHANGED <<projects, scripts, whitelists, access_logs, exchange, popunder_campaigns, client>>

force_activate_domain(user_id, domain_id) ==
    /\ Idle
    /\ \E d \in custom_domains : d.id = domain_id
    /\ custom_domains' =
         IF user_id \notin AdminIds THEN custom_domains          \* 403
         ELSE {IF d.id = domain_id THEN [d EXCEPT !.status = "verified", !.is_active = TRUE]
               ELSE d : d \in custom_domains}
    /\ UNCHANGED <<projects, scripts, whitelists, access_logs, exchange, popunder_campaigns, client>>

delete_custom_domain(user_id, domain_id) ==
    /\ Idle
    /\ \E d \in custom_domains : d.id = domain_id
    /\ custom_domains' = {d \in custom_domains : d.id # domain_id}
    /\ UNCHANGED <<projects, scripts, whitelists, access_logs, exchange, popunder_campaigns, client>>

(***************************************************************************)
(* The http middleware, in front of every route                            *)
(***************************************************************************)
cdn_domain_middleware(request) ==
    /\ Idle
    /\ LET o == cdn_domain_middleware_result(custom_domains, request)
       IN /\ req' = request
          /\ resp' = o.resp
          /\ trace' = [lookups |-> o.lookups, logged |-> <<>>, calls |-> o.calls]
    /\ UNCHANGED <<tables, client>>

Next ==
    \/ \E u \in UserIds, st \in {"active", "paused"} : create_project(u, st)
    \/ \E u \in UserIds, p \in ProjectIds, st \in {"active", "paused"} : update_project(u, p, st)
    \/ \E u \in UserIds, p \in ProjectIds : delete_project(u, p)
    \/ \E u \in UserIds, p \in ProjectIds, st \in {"active", "disabled"}, sec \in SecondaryInputs :
         create_script(u, p, st, sec)
    \/ \E u \in UserIds, p \in ProjectIds, s \in ScriptIds, st \in {"None", "active", "disabled"},
          sec \in SecondaryInputs \cup {NoSecondary} :
         update_script(u, p, s, st, sec)
    \/ \E u \in UserIds, p \in ProjectIds, s \in ScriptIds : delete_script(u, p, s)
    \/ \E u \in UserIds, p \in ProjectIds, s \in ScriptIds, d \in PatternInputs :
         add_whitelist(u, p, s, d)
    \/ \E u \in UserIds, p \in ProjectIds, s \in ScriptIds, w \in WhitelistIds,
          d \in PatternInputs \cup {"None"}, a \in {"None", "True", "False"} :
         update_whitelist(u, p, s, w, d, a)
    \/ \E u \in UserIds, p \in ProjectIds, s \in ScriptIds, w \in WhitelistIds :
         delete_whitelist(u, p, s, w)
    \/ \E u \in UserIds, p \in ProjectIds : clear_access_logs(u, p)
    \/ \E r \in DeliveryRequests : deliver_js(r)
    \/ receive_response

Spec == Init /\ [][Next]_vars

\* the host router and the custom domain routes; they share no table with the routes of
\* Next, so the two groups are explored apart
NextRouter ==
    \/ \E u \in UserIds, d \in DomainInputs : add_custom_domain(u, d)
    \/ \E u \in UserIds, i \in DomainIds, probe \in ProbeInputs : verify_custom_domain(u, i, probe)
    \/ \E u \in UserIds, i \in DomainIds, a \in {"None", "True", "False"} :
         update_custom_domain(u, i, a)
    \/ \E u \in UserIds, i \in DomainIds : force_activate_domain(u, i)
    \/ \E u \in UserIds, i \in DomainIds : delete_custom_domain(u, i)
    \/ \E r \in RouterRequests : cdn_domain_middleware(r)
    \/ receive_response

SpecRouter == Init /\ [][NextRouter]_vars

(***************************************************************************)
(* Popunder campaigns: the campaign routes and deliver_popunder_js         *)
(***************************************************************************)
\* rows the popunder_campaigns table may hold
MaxCampaigns == 1

CampaignIds == 1..MaxCampaigns

\* name values a PopunderCampaignCreate / PopunderCampaignUpdate body may carry
CampaignNameInputs == {"C 1", " "}

DefaultDevices == <<"desktop", "mobile", "tablet">>

\* PopunderCampaignSettings bodies; "URLS2" is two urls with blanks and an empty line
CampaignSettingsInputs ==
    { [url_list |-> "http://x.co/a", timer |-> 0, frequency |-> 1, devices |-> DefaultDevices,
       countries |-> <<>>, floating_banner |-> "", html_body |-> ""],
      [url_list |-> "\n", timer |-> 0, frequency |-> 1, devices |-> DefaultDevices,
       countries |-> <<>>, floating_banner |-> "", html_body |-> ""],
      [url_list |-> "URLS2", timer |-> 5, frequency |-> 2, devices |-> <<"desktop">>,
       countries |-> <<>>, floating_banner |-> "", html_body |-> ""] }

\* a PopunderCampaignUpdate body without settings
NoSettings == [url_list |-> "None"]

\* /api/js/popunder/{campaign_file}
CampaignFileInputs == {"c-1.js", "c-1-1.js", "c-1.txt"}

\* the campaign select of the exchange raises, or nothing does
CampaignFaults == {"none", "campaign"}

PopunderRequests ==
    { [kind |-> "popunder", campaign_file |-> file, base_url |-> "https://s.t.co/",
       headers |-> [sec_fetch_dest |-> f.sec_fetch_dest, sec_fetch_mode |-> f.sec_fetch_mode,
                    accept |-> f.accept, origin |-> c.origin, referer |-> c.referer],
       fault |-> x] :
      file \in CampaignFileInputs, f \in FetchHeaderInputs, c \in CallerInputs,
      x \in CampaignFaults }

\* slugify(name): lowercase, every run of other characters becomes one hyphen, no hyphen
\* at either end
RECURSIVE Squeeze(_)
Squeeze(s) ==
    IF Len(s) < 2 THEN s
    ELSE IF s[1] = "-" /\ s[2] = "-" THEN Squeeze(Tail(s))
    ELSE <<s[1]>> \o Squeeze(Tail(s))

slugify(name) ==
    LET lowered == Lower(name)
        hyphened == [i \in 1..Len(lowered) |->
                        IF lowered[i] \in AlnumChars THEN lowered[i] ELSE "-"]
        squeezed == Squeeze(hyphened)
        keep == {i \in 1..Len(squeezed) : squeezed[i] # "-"}
    IN IF keep = {} THEN <<>>
       ELSE SubSeq(squeezed, CHOOSE i \in keep : \A j \in keep : i <= j,
                             CHOOSE i \in keep : \A j \in keep : j <= i)

\* str(counter) for a counter of one digit
DigitOf == <<"1", "2", "3", "4", "5", "6", "7", "8", "9">>

\* generate_popunder_slug: the base slug, or the first base-<counter> no row holds
RECURSIVE next_free_slug(_, _, _)
next_free_slug(C, base, counter) ==
    LET slug == IF counter = 0 THEN base ELSE base \o <<"-", DigitOf[counter]>>
    IN IF \E c \in C : c.slug = slug THEN next_free_slug(C, base, counter + 1) ELSE slug

generate_popunder_slug(C, name) == next_free_slug(C, slugify(name), 0)

\* get_user_campaign: the campaign the user may access (empty: 404)
get_user_campaign(campaign_id, user_id) ==
    {c \in popunder_campaigns : c.id = campaign_id /\ (user_id \in AdminIds \/ c.user_id = user_id)}

create_popunder_campaign(user_id, name, settings, status) ==
    /\ Idle
    /\ IF Strip(Chars[name]) = <<>>
         THEN UNCHANGED popunder_campaigns                       \* 400
       ELSE IF Strip(Chars[settings.url_list]) = <<>>
         THEN UNCHANGED popunder_campaigns                       \* 400
       ELSE IF status \notin {"active", "paused"}
         THEN UNCHANGED popunder_campaigns                       \* 400
       ELSE /\ \E i \in CampaignIds : i \notin {c.id : c \in popunder_campaigns}
            /\ popunder_campaigns' = popunder_campaigns \cup
                   {[id |-> NewId(CampaignIds, popunder_campaigns), user_id |-> user_id,
                     name |-> Strip(Chars[name]),
                     slug |-> generate_popunder_slug(popunder_campaigns, Strip(Chars[name])),
                     status |-> status, settings |-> settings]}
    /\ UNCHANGED <<projects, scripts, whitelists, access_logs, custom_domains, exchange, client>>

\* name, settings and status are changed in that order; a 400 on a later field leaves
\* the row as it was, nothing having been committed
update_popunder_campaign(user_id, campaign_id, name, settings, status) ==
    /\ Idle
    /\ get_user_campaign(campaign_id, user_id) # {}
    /\ IF name # "None" /\ Strip(Chars[name]) = <<>>
         THEN UNCHANGED popunder_campaigns                       \* 400
       ELSE IF settings # NoSettings /\ Strip(Chars[settings.url_list]) = <<>>
         THEN UNCHANGED popunder_campaigns                       \* 400
       ELSE IF status \notin {"None", "active", "paused"}
         THEN UNCHANGED popunder_campaigns                       \* 400
       ELSE popunder_campaigns' =
              {IF c.id # campaign_id THEN c
               ELSE [c EXCEPT
                       !.name = IF name = "None" THEN @ ELSE Strip(Chars[name]),
                       !.slug = IF name = "None" THEN @
                                ELSE generate_popunder_slug(popunder_campaigns,
                                                            Strip(Chars[name])),
                       !.settings = IF settings = NoSettings THEN @ ELSE settings,
                       !.status = IF status = "None" THEN @ ELSE status] :
               c \in popunder_campaigns}
    /\ UNCHANGED <<projects, scripts, whitelists, access_logs, custom_domains, exchange, client>>

delete_popunder_campaign(user_id, campaign_id) ==
    /\ Idle
    /\ get_user_campaign(campaign_id, user_id) # {}
    /\ popunder_campaigns' = {c \in popunder_campaigns : c.id # campaign_id}
    /\ UNCHANGED <<projects, scripts, whitelists, access_logs, custom_domains, exchange, client>>

\* [u.strip() for u in url_list_str.split('\n') if u.strip()]
campaign_urls(url_list) ==
    LET pieces == Split(Chars[url_list], <<"\n">>)
        stripped == [i \in 1..Len(pieces) |-> Strip(pieces[i])]
    IN SelectSeq(stripped, LAMBDA u : u # <<>>)

\* str(request.base_url).rstrip('/')
api_base(base_url) ==
    LET chars == Chars[base_url]
        keep == {i \in 1..Len(chars) : chars[i] # "/"}
    IN IF keep = {} THEN <<>>
       ELSE SubSeq(chars, 1, CHOOSE i \in keep : \A j \in keep : j <= i)

\* the config dict written into the engine
campaign_config(campaign) ==
    [id |-> campaign.id, urls |-> campaign_urls(campaign.settings.url_list),
     timer |-> campaign.settings.timer, freq |-> campaign.settings.frequency,
     devices |-> campaign.settings.devices, countries |-> campaign.settings.countries,
     banner |-> campaign.settings.floating_banner, html |-> campaign.settings.html_body]

\* POPUNDER_ENGINE_TEMPLATE with __CONFIG__ and __API_BASE__ replaced
POPUNDER_ENGINE_TEMPLATE == "POPUNDER_ENGINE_TEMPLATE"

popunder_engine(config, base) ==
    [text |-> POPUNDER_ENGINE_TEMPLATE, parts |-> <<config, [api_base |-> base]>>]

\* an endpoint that turns navigations away as script delivery does
deliver_popunder_js_result_classified(C, request) ==
    LET campaign_slug == SubSeq(Chars[request.campaign_file], 1,
                                Len(Chars[request.campaign_file]) - 3)
        found == {c \in C : c.slug = campaign_slug}
        campaign == CHOOSE c \in found : TRUE
    IN IF ~is_script_request(request.headers)
         THEN [resp |-> direct_access_response, lookups |-> <<>>]
       ELSE IF ~EndsWith(Chars[request.campaign_file], <<".", "j", "s">>)
         THEN [resp |-> noop_response, lookups |-> <<>>]
       ELSE IF request.fault = "campaign"
         THEN [resp |-> UnhandledError, lookups |-> <<"popunder_campaigns">>]
       ELSE IF found = {} \/ campaign.status = "paused"
         THEN [resp |-> noop_response, lookups |-> <<"popunder_campaigns">>]
       ELSE [resp |-> Response(popunder_engine(campaign_config(campaign),
                                               api_base(request.base_url)),
                               JS_MEDIA_TYPE, JS_CACHE_HEADERS),
             lookups |-> <<"popunder_campaigns">>]

\* deliver_popunder_js on the table C (popunder_campaigns): the response and the lookups
\* made; the select is not guarded, so a raising select leaves the handler
deliver_popunder_js_result(C, request) ==
    LET campaign_slug == SubSeq(Chars[request.campaign_file], 1,
                                Len(Chars[request.campaign_file]) - 3)
        found == {c \in C : c.slug = campaign_slug}
        campaign == CHOOSE c \in found : TRUE
    IN IF ~EndsWith(Chars[request.campaign_file], <<".", "j", "s">>)
         THEN [resp |-> noop_response, lookups |-> <<>>]
       ELSE IF request.fault = "campaign"
         THEN [resp |-> UnhandledError, lookups |-> <<"popunder_campaigns">>]
       ELSE IF found = {}
         THEN [resp |-> noop_response, lookups |-> <<"popunder_campaigns">>]
       ELSE IF campaign.status = "paused"
         THEN [resp |-> noop_response, lookups |-> <<"popunder_campaigns">>]
       ELSE [resp |-> Response(popunder_engine(campaign_config(campaign),
                                               api_base(request.base_url)),
                               JS_MEDIA_TYPE, JS_CACHE_HEADERS),
             lookups |-> <<"popunder_campaigns">>]

deliver_popunder_js(request) ==
    /\ Idle
    /\ \E o \in {deliver_popunder_js_result(popunder_campaigns, request)} :
          /\ req' = request
          /\ resp' = o.resp
          /\ trace' = [lookups |-> o.lookups, logged |-> <<>>, calls |-> 0]
    /\ UNCHANGED <<tables, client>>

\* the campaign routes and campaign delivery; they share no table with the routes of Next
NextPopunder ==
    \/ \E u \in UserIds, n \in CampaignNameInputs, x \in CampaignSettingsInputs,
          st \in {"active", "paused", "off"} : create_popunder_campaign(u, n, x, st)
    \/ \E u \in UserIds, i \in CampaignIds, n \in CampaignNameInputs \cup {"None"},
          x \in CampaignSettingsInputs \cup {NoSettings},
          st \in {"None", "active", "paused", "off"} :
         update_popunder_campaign(u, i, n, x, st)
    \/ \E u \in UserIds, i \in CampaignIds : delete_popunder_campaign(u, i)
    \/ \E r \in PopunderRequests : deliver_popunder_js(r)
    \/ receive_response

SpecPopunder == Init /\ [][NextPopunder]_vars

(***************************************************************************)
(* The popunder engine in the visitor's browser (POPUNDER_ENGINE_TEMPLATE).*)
(* client holds the page's copy of the engine and the browser state it     *)
(* reads: the localStorage item, the day, the pending callback             *)
(***************************************************************************)
\* days the browser's clock may show
MaxDay == 2

\* the largest count a stored item starts with
MaxStoredCount == 2

Days == 1..MaxDay

\* settings of the campaigns whose engine a page loads
ClientSettingsInputs ==
    { x \in CampaignSettingsInputs : Strip(Chars[x.url_list]) # <<>> }
    \cup { [url_list |-> "http://x.co/a", timer |-> 0, frequency |-> 0,
            devices |-> <<"mobile">>, countries |-> <<"ID">>,
            floating_banner |-> "", html_body |-> ""] }

\* var c = __CONFIG__
ClientConfigs == { campaign_config([id |-> 1, settings |-> x]) : x \in ClientSettingsInputs }

\* getDeviceType()
DeviceTypes == {"desktop", "mobile"}

\* localStorage.getItem(sk): nothing, a value JSON.parse rejects, or {date, count}
\* written on an earlier day (0) or on a day of the run
NoItem == [kind |-> "null"]

CorruptItem == [kind |-> "corrupt"]

StoredItem(date, count) == [kind |-> "data", date |-> date, count |-> count]

StorageInputs ==
    {NoItem, CorruptItem} \cup { StoredItem(d, n) : d \in 0..1, n \in 0..MaxStoredCount }

\* what window.open does in openPopunder: a window, null, an exception before any window
\* exists, an exception once the window is open
OpenInputs == {"window", "null", "throws", "throws_after"}

\* what window.open('about:blank') does in the catch branch, with the same outcomes
FallbackInputs == {"window", "null", "throws", "throws_after"}

\* the engine as the page has just run it: both listeners registered, nothing triggered;
\* windows and last tell what the latest step's call of openPopunder did, if it made one
LoadedClient(c, device, storage, today) ==
    [loaded |-> TRUE, c |-> c, device |-> device, storage |-> storage, today |-> today,
     triggered |-> FALSE, listening |-> TRUE, waiting |-> "none", windows |-> 0,
     last |-> "none"]

\* a frequency check that lets the show at the cap through
checkFrequency_above_cap(storage, today, freq) ==
    IF storage.kind = "corrupt" THEN TRUE
    ELSE LET count == IF storage.kind = "data" /\ storage.date = today THEN storage.count ELSE 0
         IN ~(count > freq)

\* checkFrequency(): a failing parse allows the show
checkFrequency(storage, today, freq) ==
    IF storage.kind = "corrupt" THEN TRUE
    ELSE LET count == IF storage.kind = "data" /\ storage.date = today THEN storage.count ELSE 0
         IN ~(count >= freq)

\* markShown(): the item after the call; a failing parse leaves it alone
markShown(storage, today) ==
    IF storage.kind = "corrupt" THEN storage
    ELSE LET count == IF storage.kind = "data" /\ storage.date = today THEN storage.count ELSE 0
         IN StoredItem(today, count + 1)

checkDevice(c, device) ==
    c.devices = <<>> \/ \E i \in 1..Len(c.devices) : c.devices[i] = device

\* an openPopunder that counts a show when window.open returned nothing
openPopunder_marks_blocked(cl, open, fallback) ==
    IF cl.c.urls = <<>> THEN [cl EXCEPT !.windows = 0, !.last = "no_url"]
    ELSE IF ~checkFrequency(cl.storage, cl.today, cl.c.freq)
      THEN [cl EXCEPT !.windows = 0, !.last = "capped"]
    ELSE IF ~checkDevice(cl.c, cl.device) THEN [cl EXCEPT !.windows = 0, !.last = "device"]
    ELSE IF open = "window"
      THEN [cl EXCEPT !.windows = 1, !.last = "opened",
                      !.storage = markShown(cl.storage, cl.today)]
    ELSE [cl EXCEPT !.windows = 0, !.last = "blocked",
                    !.storage = markShown(cl.storage, cl.today)]

\* openPopunder(): the client after the call
openPopunder(cl, open, fallback) ==
    IF cl.c.urls = <<>> THEN [cl EXCEPT !.windows = 0, !.last = "no_url"]
    ELSE IF ~checkFrequency(cl.storage, cl.today, cl.c.freq)
      THEN [cl EXCEPT !.windows = 0, !.last = "capped"]
    ELSE IF ~checkDevice(cl.c, cl.device) THEN [cl EXCEPT !.windows = 0, !.last = "device"]
    ELSE IF open = "window"
      THEN [cl EXCEPT !.windows = 1, !.last = "opened",
                      !.storage = markShown(cl.storage, cl.today)]
    ELSE IF open = "null" THEN [cl EXCEPT !.windows = 0, !.last = "blocked"]
    ELSE LET first == IF open = "throws_after" THEN 1 ELSE 0
         IN IF fallback = "window"
              THEN [cl EXCEPT !.windows = first + 1, !.last = "opened",
                              !.storage = markShown(cl.storage, cl.today)]
            ELSE IF fallback = "throws_after"
              THEN [cl EXCEPT !.windows = first + 1, !.last = "opened_unmarked"]
            ELSE [cl EXCEPT !.windows = first,
                            !.last = IF first = 1 THEN "opened_unmarked" ELSE "blocked"]

\* the callback onUserAction hands to checkCountry
country_result(cl, allowed, open, fallback) ==
    IF ~allowed
      THEN [cl EXCEPT !.triggered = FALSE, !.waiting = "none", !.windows = 0, !.last = "none"]
    ELSE IF cl.c.timer > 0
      THEN [cl EXCEPT !.waiting = "timer", !.windows = 0, !.last = "none"]
    ELSE openPopunder([cl EXCEPT !.waiting = "none"], open, fallback)

InitClient ==
    /\ projects = {}
    /\ scripts = {}
    /\ whitelists = {}
    /\ access_logs = [p \in ProjectIds |-> 0]
    /\ custom_domains = {}
    /\ popunder_campaigns = {}
    /\ req = NoRequest
    /\ resp = NoResponse
    /\ trace = NoTrace
    /\ \E c \in ClientConfigs, device \in DeviceTypes, storage \in StorageInputs :
         client = LoadedClient(c, device, storage, 1)

\* a click or touchstart reaches the listener; without country targeting the callback
\* runs at once, and the listeners are removed in every case
onUserAction(open, fallback) ==
    /\ client.loaded
    /\ client.listening
    /\ IF client.triggered THEN client' = [client EXCEPT !.windows = 0, !.last = "none"]
       ELSE LET cl == [client EXCEPT !.triggered = TRUE, !.listening = FALSE]
            IN IF cl.c.countries = <<>>
                 THEN client' = country_result(cl, TRUE, open, fallback)
               ELSE client' = [cl EXCEPT !.waiting = "country", !.windows = 0,
                                             !.last = "none"]
    /\ UNCHANGED <<tables, exchange>>

\* the country lookup ends: allowed when it fails or the visitor's country is targeted
country_callback(allowed, open, fallback) ==
    /\ client.loaded
    /\ client.waiting = "country"
    /\ client' = country_result(client, allowed, open, fallback)
    /\ UNCHANGED <<tables, exchange>>

\* setTimeout(openPopunder, c.timer * 1000) fires
timer_fires(open, fallback) ==
    /\ client.loaded
    /\ client.waiting = "timer"
    /\ client' = openPopunder([client EXCEPT !.waiting = "none"], open, fallback)
    /\ UNCHANGED <<tables, exchange>>

\* midnight passes: getToday() returns the next day
next_day ==
    /\ client.loaded
    /\ client.today < MaxDay
    /\ client' = [client EXCEPT !.today = @ + 1, !.windows = 0, !.last = "none"]
    /\ UNCHANGED <<tables, exchange>>

\* the visitor loads a page carrying the same campaign again: the engine starts afresh on
\* the same localStorage
load_page ==
    /\ client.loaded
    /\ client' = LoadedClient(client.c, client.device, client.storage, client.today)
    /\ UNCHANGED <<tables, exchange>>

NextClient ==
    \/ \E open \in OpenInputs, fallback \in FallbackInputs : onUserAction(open, fallback)
    \/ \E allowed \in BOOLEAN, open \in OpenInputs, fallback \in FallbackInputs :
         country_callback(allowed, open, fallback)
    \/ \E open \in OpenInputs, fallback \in FallbackInputs : timer_fires(open, fallback)
    \/ next_day
    \/ load_page

SpecClient == InitClient /\ [][NextClient]_vars

(***************************************************************************)
(* The whitelist routes on two projects of two owners: user 1 owns project *)
(* 1 with script 1, user 2 (an admin) owns project 2 with script 2         *)
(***************************************************************************)
\* rows the script_whitelists table may hold here
MaxEntries == 2

EntryIds == 1..MaxEntries

OwnedProjectIds == {1, 2}

OwnedScriptIds == {1, 2}

\* domain_pattern values a WhitelistCreate / WhitelistUpdate body may carry
EntryPatternInputs == {"a.co", " A.co ", "*.T.co", "t.co", "a.co:80", "http://x.co/a", " "}

\* the tables once each user has created an active project and an active script in it
OwnedProjects ==
    { [id |-> u, user_id |-> u, slug |-> IF u = 1 THEN "p1" ELSE "p2", status |-> "active"] :
      u \in UserIds }

OwnedScripts ==
    { [id |-> p.id, project_id |-> p.id, slug |-> "s1", js_code |-> "JS_A", status |-> "active",
       secondary_script |-> "SEC_A", secondary_script_mode |-> "js",
       secondary_script_links |-> <<>>] : p \in OwnedProjects }

InitWhitelist ==
    /\ projects = OwnedProjects
    /\ scripts = OwnedScripts
    /\ whitelists = {}
    /\ access_logs = [p \in OwnedProjectIds |-> 0]
    /\ custom_domains = {}
    /\ popunder_campaigns = {}
    /\ client = NoClient
    /\ req = NoRequest
    /\ resp = NoResponse
    /\ trace = NoTrace

NextWhitelist ==
    \/ \E u \in UserIds, p \in OwnedProjectIds, s \in OwnedScriptIds, d \in EntryPatternInputs :
         add_whitelist_within(EntryIds, u, p, s, d)
    \/ \E u \in UserIds, p \in OwnedProjectIds, s \in OwnedScriptIds, w \in EntryIds,
          d \in EntryPatternInputs \cup {"None"}, a \in {"None", "True", "False"} :
         update_whitelist(u, p, s, w, d, a)
    \/ \E u \in UserIds, p \in OwnedProjectIds, s \in OwnedScriptIds, w \in EntryIds :
         delete_whitelist(u, p, s, w)

SpecWhitelist == InitWhitelist /\ [][NextWhitelist]_vars

(***************************************************************************)
(* Several pages of one site running the engine of one campaign at the     *)
(* same time on one localStorage. Each page runs its own statements in     *)
(* order; the statements of different pages interleave.                    *)
(***************************************************************************)
\* pages open at the same time
MaxPages == 2

\* windows after which no page opens another one
MaxOpened == 4

Pages == 1..MaxPages

\* c.freq of the campaign
CapInputs == {1, 2}

\* the pages as they have just run the engine: nothing triggered, the item another visit
\* of the day may have left
LoadedPages(freq, storage) ==
    [loaded |-> TRUE, freq |-> freq, storage |-> storage, today |-> 1,
     pc |-> [p \in Pages |-> "idle"], data |-> [p \in Pages |-> NoItem], opened |-> 0]

InitPages ==
    /\ projects = {}
    /\ scripts = {}
    /\ whitelists = {}
    /\ access_logs = [p \in ProjectIds |-> 0]
    /\ custom_domains = {}
    /\ popunder_campaigns = {}
    /\ req = NoRequest
    /\ resp = NoResponse
    /\ trace = NoTrace
    /\ \E freq \in CapInputs, storage \in {NoItem, StoredItem(1, 0)} :
         client = LoadedPages(freq, storage)

\* openPopunder on page p: if (!checkFrequency()) return
page_checkFrequency(p) ==
    /\ client.pc[p] = "idle"
    /\ client' = [client EXCEPT
                    !.pc[p] = IF checkFrequency(client.storage, client.today, client.freq)
                              THEN "checked" ELSE "done"]
    /\ UNCHANGED <<tables, exchange>>

\* openPopunder on page p: var popunder = window.open(url, ...); if (popunder) ...
page_window_open(p, open) ==
    /\ client.pc[p] = "checked"
    /\ client.opened < MaxOpened
    /\ client' = IF open = "window"
                   THEN [client EXCEPT !.pc[p] = "opened", !.opened = @ + 1]
                 ELSE [client EXCEPT !.pc[p] = "done"]
    /\ UNCHANGED <<tables, exchange>>

\* markShown on page p: var data = JSON.parse(localStorage.getItem(sk) || '{}')
page_markShown_getItem(p) ==
    /\ client.pc[p] = "opened"
    /\ client' = [client EXCEPT !.pc[p] = "read", !.data[p] = client.storage]
    /\ UNCHANGED <<tables, exchange>>

\* markShown on page p: data.count++; localStorage.setItem(sk, JSON.stringify(data))
page_markShown_setItem(p) ==
    /\ client.pc[p] = "read"
    /\ client' = [client EXCEPT !.pc[p] = "done", !.data[p] = NoItem,
                                !.storage = markShown(client.data[p], client.today)]
    /\ UNCHANGED <<tables, exchange>>

\* the visitor loads the page again: the engine starts afresh on the same localStorage
page_load(p) ==
    /\ client.pc[p] = "done"
    /\ client' = [client EXCEPT !.pc[p] = "idle"]
    /\ UNCHANGED <<tables, exchange>>

NextPages ==
    \/ \E p \in Pages : page_checkFrequency(p)
    \/ \E p \in Pages, open \in {"window", "null"} : page_window_open(p, open)
    \/ \E p \in Pages : page_markShown_getItem(p)
    \/ \E p \in Pages : page_markShown_setItem(p)
    \/ \E p \in Pages : page_load(p)

SpecPages == InitPages /\ [][NextPages]_vars

(***************************************************************************)
(* The pure functions of the core, each called once on an input drawn from *)
(* a bounded set: req is the call, resp its return value                   *)
(***************************************************************************)
\* patterns a matcher call may pass
MaxPatterns == 2

MatcherDomainInputs == {"", " ", "a.co", "t.co", "s.t.co", "x.s.t.co", "at.co", "https://a.co/p"}

MatcherPatternInputs == {"a.co", "*.t.co", "t.co", ""}

PatternLists == UNION {[1..n -> MatcherPatternInputs] : n \in 0..MaxPatterns}

ValidatorInputs ==
    {"", " ", "a.co", "*.T.co", " *.A.co ", "a.co:80", "http://x.co/a", "a:b/c", "*", "a*.co",
     "*.*.co", "*.co", "*.-a.co", "localhost", "-a.co", "LEN255", "LEN256", "LEN256/"}

NormalizerInputs ==
    {"", " ", "a.co", " A.co ", "HTTPS://A.co:443", "https://a.co/p", "a.co:80", "https://",
     "https://a.co?q=1", "https://u@a.co/p", "a.co#f"}

ClassifierInputs ==
    { [sec_fetch_dest |-> d, sec_fetch_mode |-> m, accept |-> a, origin |-> c.origin,
       referer |-> c.referer] :
      d \in {"", "script", "Document"}, m \in {"", "navigate", "cors", "no-cors"},
      a \in {"", "text/html", "*/*", "text/html,*/*"}, c \in CallerInputs }

FunctionCalls ==
    { [kind |-> "is_domain_allowed", domain |-> d, patterns |-> ps] :
        d \in MatcherDomainInputs, ps \in PatternLists }
    \cup { [kind |-> "validate_domain_pattern", pattern |-> x] : x \in ValidatorInputs }
    \cup { [kind |-> "normalize_domain", raw |-> x] : x \in NormalizerInputs }
    \cup { [kind |-> "is_script_request", headers |-> h] : h \in ClassifierInputs }

Returned(value) == [value |-> value]

InitFunctions ==
    /\ projects = {}
    /\ scripts = {}
    /\ whitelists = {}
    /\ access_logs = [p \in ProjectIds |-> 0]
    /\ custom_domains = {}
    /\ popunder_campaigns = {}
    /\ client = NoClient
    /\ req \in FunctionCalls
    /\ resp = NoResponse
    /\ trace = NoTrace

call_is_domain_allowed ==
    /\ req.kind = "is_domain_allowed"
    /\ resp = NoResponse
    /\ resp' = Returned(is_domain_allowed(Chars[req.domain],
                                          [i \in 1..Len(req.patterns) |-> Chars[req.patterns[i]]]))
    /\ UNCHANGED <<tables, client, req, trace>>

call_validate_domain_pattern ==
    /\ req.kind = "validate_domain_pattern"
    /\ resp = NoResponse
    /\ resp' = Returned(validate_domain_pattern(Chars[req.pattern]))
    /\ UNCHANGED <<tables, client, req, trace>>

call_normalize_domain ==
    /\ req.kind = "normalize_domain"
    /\ resp = NoResponse
    /\ resp' = Returned(normalize_domain(Chars[req.raw]))
    /\ UNCHANGED <<tables, client, req, trace>>

call_is_script_request ==
    /\ req.kind = "is_script_request"
    /\ resp = NoResponse
    /\ resp' = Returned(is_script_request(req.headers))
    /\ UNCHANGED <<tables, client, req, trace>>

NextFunctions ==
    \/ call_is_domain_allowed
    \/ call_validate_domain_pattern
    \/ call_normalize_domain
    \/ call_is_script_request

SpecFunctions == InitFunctions /\ [][NextFunctions]_vars

(***************************************************************************)
(* Properties of script delivery, checked under Spec.  While a request is  *)
(* being answered the tables are those its handler read.                   *)
(***************************************************************************)
\* a delivery request is being answered
Pending == req.kind = "js"

\* neither the project nor the script lookup of the exchange raises
ReadsAnswer == req.fault \notin {"project", "script"}

HasJsSuffix == EndsWith(Chars[req.script_file], <<".", "j", "s">>)

RequestedProjects == {p \in projects : p.slug = req.project_slug}

RequestedScripts ==
    {s \in scripts : /\ \E p \in RequestedProjects : s.project_id = p.id
                     /\ Chars[s.slug] \o <<".", "j", "s">> = Chars[req.script_file]}

RequestedScript == CHOOSE s \in RequestedScripts : TRUE

\* a script load of an active script of an active project, whose lookups answer
ActiveUnit ==
    /\ Pending
    /\ ReadsAnswer
    /\ is_script_request(req.headers)
    /\ \E p \in RequestedProjects : p.status = "active"
    /\ \E s \in RequestedScripts : s.status = "active"

ActivePatternRows == {w \in whitelists : w.script_id = RequestedScript.id /\ w.is_active}

\* the normalized Origin when there is one, the normalized Referer otherwise
CallerDomain ==
    normalize_domain(Chars[IF req.headers.origin # "" THEN req.headers.origin
                           ELSE req.headers.referer])

CallerMatches ==
    LET rows == ById(ActivePatternRows)
    IN is_domain_allowed(CallerDomain, [i \in 1..Len(rows) |-> rows[i].domain_pattern])

PrimaryBody == Body(RequestedScript.js_code)

FallbackBody ==
    LET links == LinkParts(RequestedScript.secondary_script_links)
    IN IF RequestedScript.secondary_script_mode = "links"
         THEN IF links # <<>> THEN [text |-> LINK_INJECTION_JS, parts |-> links]
              ELSE Body(NOOP_JS)
       ELSE IF RequestedScript.secondary_script # "" THEN Body(RequestedScript.secondary_script)
       ELSE Body(NOOP_JS)

\* C1: for an active project and an active script with at least one active pattern, a
\* script load whose caller domain matches no active pattern never gets js_code: with
\* status 200 it gets the secondary content in 'js' mode, the generated link script in
\* 'links' mode, and the no-op payload when none is configured.
C1_DeniedGetsFallback ==
    (ActiveUnit /\ ActivePatternRows # {} /\ ~CallerMatches) =>
        /\ resp.status = 200
        /\ resp.body # PrimaryBody
        /\ resp.body = FallbackBody

C1_Witness ==
    /\ ActiveUnit /\ ActivePatternRows # {} /\ ~CallerMatches
    /\ RequestedScript.secondary_script_mode = "links"
    /\ resp.body.text = LINK_INJECTION_JS
    /\ Len(resp.body.parts) = 1

\* C2: for an active project and an active script with at least one active pattern, a
\* script load whose caller domain matches an active pattern gets the primary script with
\* status 200; the caller domain is the normalized Origin when the header is present and
\* the normalized Referer only when it is not.
C2_AllowedGetsPrimary ==
    (ActiveUnit /\ ActivePatternRows # {} /\ CallerMatches) =>
        /\ resp.status = 200
        /\ resp.body = PrimaryBody

C2_Witness ==
    /\ ActiveUnit /\ ActivePatternRows # {} /\ CallerMatches
    /\ req.headers.origin # ""
    /\ req.headers.referer # ""
    /\ normalize_domain(Chars[req.headers.referer]) # CallerDomain
    /\ resp.body = PrimaryBody

Hidden ==
    /\ Pending
    /\ ReadsAnswer
    /\ \/ RequestedProjects = {}
       \/ \E p \in RequestedProjects : p.status = "paused"
       \/ RequestedScripts = {}
       \/ \E s \in RequestedScripts : s.status = "disabled"

\* c names a caller as the request does: both name one, or neither does
SameCallerPresence(c) ==
    (c.origin # "" \/ c.referer # "") <=> (req.headers.origin # "" \/ req.headers.referer # "")

C5_AlwaysSuccessOrErrorPage ==
    Pending =>
        IF is_script_request(req.headers) THEN resp.status = 200
        ELSE /\ resp.status \notin 200..299
             /\ resp.media_type = HTML_MEDIA_TYPE
             /\ resp.body # Body(NOOP_JS)

\* C6 as stated: the project and the script are resolved and their statuses checked before
\* the request is classified: a missing, paused or disabled one gets the no-op payload even
\* for a direct navigation, and the error page is only sent for an existing active script.
C6_ChecksBeforeClassification ==
    (Pending /\ ReadsAnswer /\ HasJsSuffix) =>
        /\ Hidden => resp = noop_response
        /\ resp = direct_access_response =>
             /\ \E p \in RequestedProjects : p.status = "active"
             /\ \E s \in RequestedScripts : s.status = "active"

\* C6 amended: the request is classified first: a direct navigation gets the error page
\* without any lookup, whatever the state of the project and the script.  A script load is
\* then taken through the file suffix check, the project lookup and status, the script
\* lookup and status, in that order, each failed step ending in the no-op payload.
C6_ClassificationFirst ==
    Pending =>
        IF ~is_script_request(req.headers)
          THEN resp = direct_access_response /\ trace.lookups = <<>> /\ trace.logged = <<>>
        ELSE IF ~HasJsSuffix
          THEN resp = noop_response /\ trace.lookups = <<>>
        ELSE IF ~ReadsAnswer THEN TRUE
        ELSE IF RequestedProjects = {} \/ \E p \in RequestedProjects : p.status = "paused"
          THEN resp = noop_response /\ trace.lookups = <<"project">>
        ELSE /\ trace.lookups = <<"project", "script">>
             /\ (RequestedScripts = {} \/ \E s \in RequestedScripts : s.status = "disabled")
                    => resp = noop_response
             /\ ActiveUnit => resp.body \in {PrimaryBody, FallbackBody}

C6_Witness ==
    /\ Pending
    /\ ~is_script_request(req.headers)
    /\ HasJsSuffix
    /\ \E p \in RequestedProjects : p.status = "paused"
    /\ resp = direct_access_response

\* C7 as stated: a file segment that does not end in '.js' always gets the no-op payload,
\* with no lookup and no access record.
C7_NonJsGetsNoop ==
    (Pending /\ ~HasJsSuffix) =>
        resp = noop_response /\ trace.lookups = <<>> /\ trace.logged = <<>>

\* C7 amended: a file segment that does not end in '.js' causes no lookup and no access
\* record; it gets the no-op payload when the request is classified as a script load, and
\* the direct-access error page when it is classified as a direct navigation.
C7_NonJsNoLookup ==
    (Pending /\ ~HasJsSuffix) =>
        /\ trace.lookups = <<>>
        /\ trace.logged = <<>>
        /\ resp = IF is_script_request(req.headers) THEN noop_response
                  ELSE direct_access_response

C7_Witness ==
    /\ Pending /\ ~HasJsSuffix
    /\ is_script_request(req.headers)
    /\ \E p \in RequestedProjects : p.status = "active"
    /\ \E s \in scripts : s.status = "active"
    /\ resp = noop_response
    /\ trace.lookups = <<>>

\* C10 as stated: when the project lookup or the script lookup raises, the script load is
\* still answered with the no-op payload and status 200; no failure leaves the handler.
C10_FailingReadDenies ==
    (Pending /\ ~ReadsAnswer /\ is_script_request(req.headers) /\ HasJsSuffix) =>
        /\ ~resp.raised
        /\ resp.status = 200
        /\ resp.body = Body(NOOP_JS)

(***************************************************************************)
(* Properties of the host router, checked under SpecRouter                 *)
(***************************************************************************)
RouterPending == req.kind = "http"

\* the Host header without its port, lowercased
RequestHost == Lower(Split(Chars[req.host], <<":">>)[1])

NamesCdnDomain ==
    \E d \in custom_domains : d.domain = RequestHost /\ d.is_active /\ d.status = "verified"

HasDeliveryPrefix == StartsWith(Chars[req.path], <<"/", "a", "p", "i", "/", "j", "s", "/">>)

\* C8: when the host names an active, verified custom domain and the path does not start
\* with '/api/js/', the response is the informational page with status 200 and the
\* downstream handler is not invoked; otherwise the request is passed to the downstream
\* handler, whose outcome is the outcome of the exchange.
C8_InfoPageOrPassthrough ==
    (RouterPending /\ req.fault = "none") =>
        IF NamesCdnDomain /\ ~HasDeliveryPrefix
          THEN /\ resp = cdn_info_response(RequestHost)
               /\ resp.status = 200
               /\ trace.calls = 0
        ELSE /\ trace.calls >= 1
             /\ resp = call_next(req, trace.calls)

C8_Witness ==
    /\ RouterPending /\ req.fault = "none"
    /\ req.host = "CDN.co:8080"
    /\ NamesCdnDomain /\ ~HasDeliveryPrefix
    /\ resp.status = 200
    /\ resp.body.text = CDN_HTML
    /\ trace.calls = 0

\* C9: when the custom domain lookup fails, the request is passed to the downstream
\* handler once, exactly as for a host that is no delivery-only host: the outcome is the
\* downstream's, never the informational page.
C9_LookupFailurePassesThrough ==
    (RouterPending /\ req.fault = "lookup") =>
        /\ trace.calls = 1
        /\ resp = call_next(req, 1)
        /\ resp = cdn_domain_middleware_result({}, [req EXCEPT !.fault = "none"]).resp
        /\ resp.body.text # CDN_HTML

C9_Witness ==
    /\ RouterPending /\ req.fault = "lookup"
    /\ NamesCdnDomain /\ ~HasDeliveryPrefix
    /\ trace.calls = 1
    /\ ~resp.raised
    /\ resp = call_next(req, 1)

(***************************************************************************)
(* Properties of the pure functions, checked under SpecFunctions           *)
(***************************************************************************)
\* the call of the named function has returned
Called(kind) == req.kind = kind /\ resp # NoResponse

\* a non-empty host that normalizing leaves as it is
BareHost(d) == d # "" /\ normalize_domain(Chars[d]) = Chars[d]

\* an accepted pattern in its stored form: lowercase, trimmed
ValidPattern(x) ==
    validate_domain_pattern(Chars[x])[1] /\ Strip(Lower(Chars[x])) = Chars[x]

IsWildcard(x) == StartsWith(Chars[x], <<"*", ".">>)

WildcardSuffix(x) == SubSeq(Chars[x], 3, Len(Chars[x]))

SameElements(ps, qs) ==
    {ps[i] : i \in 1..Len(ps)} = {qs[i] : i \in 1..Len(qs)}

\* C11: for a non-empty bare lowercase host d and a non-empty list P of valid patterns,
\* is_domain_allowed(d, P) is true exactly when d is an exact pattern of P or P holds a
\* wildcard '*.S' with d ending in '.' + S; '*.S' alone never allows S itself; and the
\* result is the same for every ordering of the patterns.
C11_MatcherExactOrWildcard ==
    (/\ Called("is_domain_allowed")
     /\ BareHost(req.domain)
     /\ req.patterns # <<>>
     /\ \A i \in 1..Len(req.patterns) : ValidPattern(req.patterns[i])) =>
        LET d == Chars[req.domain]
            ps == req.patterns
        IN /\ resp.value =
                (\E i \in 1..Len(ps) :
                    \/ ~IsWildcard(ps[i]) /\ Chars[ps[i]] = d
                    \/ IsWildcard(ps[i]) /\ EndsWith(d, <<".">> \o WildcardSuffix(ps[i])))
           /\ (\A i \in 1..Len(ps) : IsWildcard(ps[i]) /\ WildcardSuffix(ps[i]) = d)
                  => resp.value = FALSE
           /\ \A qs \in PatternLists :
                SameElements(ps, qs) =>
                    is_domain_allowed(d, [i \in 1..Len(qs) |-> Chars[qs[i]]]) = resp.value

C11_Witness ==
    /\ Called("is_domain_allowed")
    /\ req.domain = "x.s.t.co"
    /\ req.patterns = <<"a.co", "*.t.co">>
    /\ resp.value = TRUE

StatedValidation(raw) ==
    LET pattern == Strip(Lower(raw))
        rest == SubSeq(pattern, 3, Len(pattern))
    IN IF pattern = <<>> THEN <<FALSE, "Domain pattern cannot be empty">>
       ELSE IF Len(pattern) > MaxPatternLen THEN <<FALSE, "Domain pattern too long (max 255)">>
       ELSE IF Contains(pattern, <<":", "/", "/">>) \/ Contains(pattern, <<"/">>)
         THEN <<FALSE, "Domain pattern must not contain protocol or path">>
       ELSE IF Contains(pattern, <<":">>)
         THEN <<FALSE, "Domain pattern must not contain port">>
       ELSE IF pattern = <<"*">> THEN <<FALSE, "Bare wildcard (*) is not allowed">>
       ELSE IF ~Contains(pattern, <<"*">>)
         THEN IF ~Contains(pattern, <<".">>)
                THEN <<FALSE, "Domain must contain at least one dot (no localhost)">>
              ELSE IF ~MatchesDomainRegex(pattern)
                THEN <<FALSE,
                       "Domain contains invalid characters (only a-z, 0-9, ., - allowed)">>
              ELSE <<TRUE, "Valid">>
       ELSE IF ~StartsWith(pattern, <<"*", ".">>)
         THEN <<FALSE, "Wildcard only allowed as leading *.">>
       ELSE IF Contains(rest, <<"*">>) THEN <<FALSE, "Only one wildcard allowed">>
       ELSE IF ~Contains(rest, <<".">>)
         THEN <<FALSE, "Wildcard domain must have at least one dot">>
       ELSE IF ~MatchesDomainRegex(rest) THEN <<FALSE, "Invalid domain format after wildcard">>
       ELSE <<TRUE, "Valid">>

\* C13 as stated: validate_domain_pattern accepts a pattern exactly when, lowercased and
\* trimmed, it is non-empty, at most 255 characters, free of '://', '/' and ':', not the
\* bare '*', and a dotted host or a single leading-wildcard host; the rules apply in that
\* order and the reported reason is that of the first rule that fails.
C13_ValidatorFirstFailingRule ==
    Called("validate_domain_pattern") => resp.value = StatedValidation(Chars[req.pattern])

\* the classifier's rule list with the rule the source adds after the Origin / Referer
\* rule: no Origin, no Referer and 'text/html' in Accept gives false
AmendedClassification(h) ==
    LET dest == Lower(Chars[h.sec_fetch_dest])
        mode == Lower(Chars[h.sec_fetch_mode])
        html == Contains(Chars[h.accept], Chars["text/html"])
        any == Contains(Chars[h.accept], Chars["*/*"])
    IN IF dest \in {Chars["script"], Lower(Chars["Document"])} THEN dest = Chars["script"]
       ELSE IF mode \in {Chars["navigate"], Chars["cors"], Chars["no-cors"]}
         THEN mode # Chars["navigate"]
       ELSE IF html /\ ~any THEN FALSE
       ELSE IF h.origin # "" \/ h.referer # "" THEN TRUE
       ELSE ~html

\* C14, amended: is_script_request returns the outcome of the first applicable rule of:
\* (1) sec-fetch-dest 'script' true, 'document' false; (2) sec-fetch-mode 'navigate'
\* false, 'cors' or 'no-cors' true; (3) Accept with 'text/html' and without '*/*' false;
\* (4) a present Origin or Referer true; (5) Accept with 'text/html' false; (6) true.
C14_ClassifierRules ==
    Called("is_script_request") => resp.value = AmendedClassification(req.headers)

\* no fetch metadata, no caller header, an Accept naming both text/html and */*
C14_Witness ==
    /\ Called("is_script_request")
    /\ req.headers = [sec_fetch_dest |-> "", sec_fetch_mode |-> "", accept |-> "text/html,*/*",
                      origin |-> "", referer |-> ""]
    /\ resp.value = FALSE

\* C14 as stated: the list ends with (4) a present Origin or Referer true, (5) otherwise
\* true, so every request that rules (1) to (3) leave undecided is a script load.
C14_ClassifierAsStated ==
    Called("is_script_request") =>
        LET h == req.headers
            dest == Lower(Chars[h.sec_fetch_dest])
            mode == Lower(Chars[h.sec_fetch_mode])
            decided == \/ dest \in {Chars["script"], Lower(Chars["Document"])}
                       \/ mode \in {Chars["navigate"], Chars["cors"], Chars["no-cors"]}
                       \/ /\ Contains(Chars[h.accept], Chars["text/html"])
                          /\ ~Contains(Chars[h.accept], Chars["*/*"])
        IN ~decided => resp.value = TRUE

\* C15 as stated: normalize_domain returns a lowercase host holding none of '://', '@',
\* ':', '/', '?', '#', and the empty string for empty input.
C15_NormalizedIsBareHost ==
    Called("normalize_domain") =>
        /\ resp.value = Lower(resp.value)
        /\ \A mark \in {<<":", "/", "/">>, <<"@">>, <<":">>, <<"/">>, <<"?">>, <<"#">>} :
                ~Contains(resp.value, mark)
        /\ req.raw = "" => resp.value = <<>>

(***************************************************************************)
(* Properties of campaign delivery, checked under SpecPopunder             *)
(***************************************************************************)
\* a campaign request has been answered and the answer is not yet received
PopunderPending == req.kind = "popunder" /\ resp # NoResponse

\* the campaigns whose slug is the requested file without its last three characters
RequestedCampaigns ==
    {c \in popunder_campaigns :
        c.slug \o <<".", "j", "s">> = Chars[req.campaign_file]}

AtDailyCap ==
    /\ client.loaded
    /\ client.storage.kind = "data"
    /\ client.storage.date = client.today
    /\ client.storage.count >= client.c.freq

\* the stored counter is of an earlier day
StaleCounter ==
    /\ client.loaded
    /\ client.storage.kind = "data"
    /\ client.storage.date < client.today

\* C17: while the counter stored for the current day is at or above the campaign's daily
\* cap, no step of the engine (a trigger, its country callback, its timer) opens a window
\* or changes the stored counter; a counter stored for an earlier day counts as zero: it
\* never suppresses a campaign whose cap is positive, and a show then stores a count of 1.
C17_CapSuppressesOpen ==
    [][ /\ AtDailyCap => (client'.windows = 0 /\ client'.storage = client.storage)
        /\ (StaleCounter /\ client.c.freq > 0) => client'.last # "capped"
        /\ (StaleCounter /\ client'.windows > 0 /\ client'.last = "opened") =>
              client'.storage = StoredItem(client.today, 1) ]_vars

\* cap 1, counter 1 for today: the trigger was suppressed
C17_Witness ==
    /\ AtDailyCap
    /\ client.c.freq = 1
    /\ client.storage.count = 1
    /\ client.triggered
    /\ client.last = "capped"
    /\ client.windows = 0

(***************************************************************************)
(* Properties of the delivery headers and of the access records, checked   *)
(* under Spec                                                              *)
(***************************************************************************)
\* C18 as stated: every response the delivery handler returns (primary, fallback, no-op
\* or navigation error page) carries the header 'Vary: Origin, Referer'.
C18_EveryResponseVaries ==
    (Pending /\ ~resp.raised) => <<"Vary", "Origin, Referer">> \in resp.headers

\* the exchange went past classification, suffix check and project lookup to one of:
\* paused project, disabled script, primary, fallback, denied no-op
RecordingBranch ==
    /\ Pending
    /\ ReadsAnswer
    /\ is_script_request(req.headers)
    /\ HasJsSuffix
    /\ \/ \E p \in RequestedProjects : p.status = "paused"
       \/ RequestedProjects # {} /\ RequestedScripts # {}

\* the primary payload of an active script of an active project is the answer
PrimaryServed == ActiveUnit /\ resp.body = PrimaryBody

\* the rows an exchange writes when its recorder call is made once
OneRecord == IF req.fault = "log" THEN 0 ELSE 1

\* C19, amended: a script load that ends in the paused-project, disabled-script, primary,
\* fallback or denied no-op branch calls the recorder once before the response: exactly
\* one access record is written (none if the write itself fails, the response being the
\* same), for the resolved project, and its allowed flag is true exactly when the primary
\* payload was served; the navigation error page and the no-op for a file without '.js'
\* are returned before any lookup and write no record.
C19_OneRecordPerDecision ==
    /\ RecordingBranch =>
          /\ Len(trace.logged) = OneRecord
          /\ \A i \in 1..Len(trace.logged) :
                /\ trace.logged[i].allowed = PrimaryServed
                /\ \E p \in RequestedProjects : trace.logged[i].project_id = p.id
    /\ (Pending /\ (~is_script_request(req.headers) \/ ~HasJsSuffix)) =>
          trace.logged = <<>>

\* a whitelisted caller is served the primary payload and one allowed record is written
C19_Witness ==
    /\ RecordingBranch
    /\ ActivePatternRows # {}
    /\ PrimaryServed
    /\ Len(trace.logged) = 1
    /\ trace.logged[1].allowed

\* C19 as stated: the navigation error page too is a terminal branch that writes exactly
\* one access record, with allowed true exactly when the primary payload was served.
C19_EveryBranchRecords ==
    (/\ Pending
     /\ req.fault = "none"
     /\ RecordingBranch \/ ~is_script_request(req.headers)) =>
        /\ Len(trace.logged) = 1
        /\ trace.logged[1].allowed = PrimaryServed

\* a script load with a '.js' file whose project lookup answers
ResolvingLoad ==
    /\ Pending
    /\ req.fault # "project"
    /\ is_script_request(req.headers)
    /\ HasJsSuffix

\* C20, amended: when the project slug cannot be resolved the pipeline returns the no-op
\* at once, without a script lookup and without an access record; when the script slug
\* cannot be resolved within an active project it returns the no-op after writing one
\* denied access record for the project, with no script id (none if the write fails).
C20_MissingUnitIsRecorded ==
    /\ (ResolvingLoad /\ RequestedProjects = {}) =>
          /\ trace.logged = <<>>
          /\ trace.lookups = <<"project">>
          /\ resp.body = Body(NOOP_JS)
    /\ (/\ ResolvingLoad
        /\ req.fault # "script"
        /\ \E p \in RequestedProjects : p.status = "active"
        /\ RequestedScripts = {}) =>
          /\ resp.body = Body(NOOP_JS)
          /\ Len(trace.logged) = OneRecord
          /\ \A i \in 1..Len(trace.logged) :
                /\ ~trace.logged[i].allowed
                /\ trace.logged[i].script_id = 0
                /\ \E p \in RequestedProjects : trace.logged[i].project_id = p.id

\* an active project without the requested script: one denied record
C20_Witness ==
    /\ ResolvingLoad
    /\ req.fault = "none"
    /\ \E p \in RequestedProjects : p.status = "active"
    /\ RequestedScripts = {}
    /\ Len(trace.logged) = 1
    /\ ~trace.logged[1].allowed

\* C20 as stated: a missing project and a missing script both return without writing any
\* access record.
C20_MissingWritesNothing ==
    (/\ ResolvingLoad
     /\ req.fault # "script"
     /\ \/ RequestedProjects = {}
        \/ (\E p \in RequestedProjects : p.status = "active") /\ RequestedScripts = {}) =>
        trace.logged = <<>>

(***************************************************************************)
(* Claims about the whitelist routes                                       *)
(***************************************************************************)
\* the pattern a body's domain_pattern is stored as
StoredForm(d) == Strip(Lower(Chars[d]))

InvalidBody(d) == ~validate_domain_pattern(StoredForm(d))[1]

NormalizedPattern(p) ==
    /\ Lower(p) = p
    /\ Strip(p) = p
    /\ ~Contains(p, <<":", "/", "/">>)
    /\ ~Contains(p, <<"/">>)
    /\ ~Contains(p, <<":">>)
    /\ validate_domain_pattern(p)[1]

\* the bodies whose pattern the validator refuses
InvalidBodies == {d \in EntryPatternInputs : InvalidBody(d)}

\* the answer is 400 and the stored whitelist is what it was
Rejected(o) == o.status = 400 /\ o.whitelists = whitelists

\* C21: after any sequence of whitelist add, update, toggle and delete operations every
\* stored pattern is lowercase and trimmed, holds no scheme, path or port and is accepted
\* by validate_domain_pattern; an add or update carrying an invalid pattern, sent for an
\* entry or script that is found, is answered 400 and leaves the stored whitelist unchanged.
C21_StoredPatternsValid ==
    /\ \A w \in whitelists : NormalizedPattern(w.domain_pattern)
    /\ \A d \in InvalidBodies, u \in UserIds, p \in OwnedProjectIds, s \in OwnedScriptIds :
          /\ \E o \in {add_whitelist_result(EntryIds, u, p, s, d)} :
                o.status # 404 => Rejected(o)
          /\ \A w \in EntryIds, a \in {"None", "True", "False"} :
                \E o \in {update_whitelist_result(u, p, s, w, d, a)} :
                   o.status # 404 => Rejected(o)

\* a row whose pattern was sent in upper case and is stored in lower case
C21_Witness ==
    \E w \in whitelists : w.domain_pattern = Chars["*.t.co"]

\* C22: after any sequence of whitelist add, update, toggle and delete operations on a
\* script no two whitelist entries of that script hold the same pattern.
C22_NoDuplicatePatterns ==
    \A v \in whitelists, w \in whitelists :
        (v.script_id = w.script_id /\ v.domain_pattern = w.domain_pattern) => v.id = w.id

\* script loads of s1 of project p1 whose lookups answer, one per caller
ProbeLoads ==
    {r \in DeliveryRequests :
        /\ r.fault = "none" /\ r.project_slug = "p1" /\ r.script_file = "s1.js"
        /\ r.headers.sec_fetch_dest = "" /\ r.headers.sec_fetch_mode = ""
        /\ r.headers.accept = ""}

ProbedScript == CHOOSE s \in scripts : s.project_id = 1 /\ s.slug = "s1"

\* the load r receives the primary payload when the whitelist table holds W
ServedPrimary(W, r) ==
    deliver_js_result(projects, scripts, W, r).resp.body = Body(ProbedScript.js_code)

\* the loads refused the primary payload when the whitelist table holds W
RefusedLoads(W) == {r \in ProbeLoads : ~ServedPrimary(W, r)}

ActiveRowsOf(W, script_id) == {w \in W : w.script_id = script_id /\ w.is_active}

\* the tables left by the requests that switch a whitelist entry off or delete one
AfterRemoval ==
    {o.whitelists :
       o \in {x \in UNION {{update_whitelist_result(u, p, s, w, "None", "False"),
                            delete_whitelist_result(u, p, s, w)} :
                           u \in UserIds, p \in OwnedProjectIds, s \in OwnedScriptIds,
                           w \in EntryIds} : x.status = 200}}

OwnsEntry(u, row) ==
    \E s \in scripts, p \in projects :
        s.id = row.script_id /\ p.id = s.project_id /\ p.user_id = u

\* the tables an update or a delete sent by user u may leave, with any ids in the path
ChangedBy(u) ==
    {o.whitelists :
       o \in UNION {{delete_whitelist_result(u, p, s, w)} \cup
                    {update_whitelist_result(u, p, s, w, d, a) :
                       d \in EntryPatternInputs \cup {"None"}, a \in {"None", "True", "False"}} :
                    p \in OwnedProjectIds, s \in OwnedScriptIds, w \in EntryIds}}

\* C26: an update or delete sent by a non-admin user leaves every whitelist entry whose
\* script is not in a project of that user unchanged, whatever project id and script id
\* the request path carries.
C26_ForeignEntriesUntouched ==
    \A u \in UserIds \ AdminIds :
       \A W \in ChangedBy(u) : \A row \in whitelists : ~OwnsEntry(u, row) => row \in W

(***************************************************************************)
(* Further claims about the host router and the custom domain routes       *)
(***************************************************************************)
\* C27: the host router invokes the downstream handler at most once per request, also
\* when the downstream handler fails for a request on a delivery-only host with a
\* delivery path.
C27_DownstreamInvokedAtMostOnce ==
    RouterPending => trace.calls <= 1

\* C28: in every state reachable by add, verify, update, force-activate and delete
\* operations on custom domains, a custom domain with is_active = true has status
\* 'verified'.
C28_ActiveImpliesVerified ==
    \A d \in custom_domains : d.is_active => d.status = "verified"

(***************************************************************************)
(* Further claims about the popunder engine in the browser                 *)
(***************************************************************************)
\* the outcomes of openPopunder that open no window
SuppressedOutcomes == {"no_url", "capped", "device", "blocked"}

\* the step changed the stored per-day item
CounterChanged == client'.storage # client.storage

\* C23: the per-day show counter is incremented only in a step that opened a window; a
\* trigger that opens no window (no URL, cap reached, device not targeted, window.open
\* returning nothing) leaves the stored counter as it was.
C23_CounterOnlyAfterWindow ==
    [][/\ CounterChanged =>
            /\ client'.windows >= 1
            /\ client'.storage = markShown(client.storage, client.today)
       /\ client'.last \in SuppressedOutcomes =>
            client'.windows = 0 /\ ~CounterChanged]_vars

\* window.open returned nothing for a trigger that passed every check, and the store still
\* holds no item
C23_Witness ==
    /\ client.loaded
    /\ client.last = "blocked"
    /\ client.storage = NoItem

\* C24: once window.open has returned a window, an exception in one of the focus-return
\* techniques does not keep the counter increment from running: a step whose first
\* window.open yielded a window marks the show.
C24_FailureAfterOpenStillCounts ==
    [][(client'.windows >= 1 /\ client.storage # CorruptItem) => CounterChanged]_vars

\* the shows the step added to today's stored count
Increments ==
    LET before == IF client.storage.kind = "data" /\ client.storage.date = client.today
                  THEN client.storage.count ELSE 0
        after == IF client'.storage.kind = "data" /\ client'.storage.date = client.today
                 THEN client'.storage.count ELSE 0
    IN after - before

\* C29: within one page and one user trigger at most one secondary window is opened, and
\* the counter is incremented once per window opened, also when a step after the first
\* window.open throws and the fallback open runs.
C29_OneWindowOneIncrement ==
    [][(client'.loaded /\ client.storage # CorruptItem /\ client'.today = client.today) =>
          /\ client'.windows <= 1
          /\ Increments = client'.windows]_vars

(***************************************************************************)
(* Claims about pages sharing the per-day counter                          *)
(***************************************************************************)
\* C30: when several pages of one site run the engine at the same time on one stored
\* counter, the windows opened for the campaign on the day never exceed its daily cap,
\* under every interleaving of their counter reads and writes.
C30_TotalWithinDailyCap ==
    client.opened <= client.freq
====
